---- MODULE Spec2Model ----
(***************************************************************************)
(* Model of the plugin registry of Path Copy Copy:                         *)
(*   PluginsRegistry.OrderPluginsToDisplay  (PluginsRegistry.cs 172-245)   *)
(*   PluginsRegistry.GetCOMPlugins          (PluginsRegistry.cs 297-417)   *)
(* A Plugin is represented by its Id; the SeparatorPlugin is the plugin    *)
(* whose Id is SeparatorId.  Guid.CompareTo is the order < on the ids.     *)
(***************************************************************************)
EXTENDS Integers, Sequences, FiniteSets, TLC

(***************************************************************************)
(* Bounds of the model.                                                    *)
(***************************************************************************)
\* Number of distinct non-separator plugin ids.
NumPlugins == 2
\* Len(displayOrder) + Len(pluginsInDefaultOrder) is at most MaxTotalLen.
MaxTotalLen == 3
\* Number of distinct COM plugin ids in the registry.
NumComIds == 2
\* Number of value names in the two COM plugins keys together.
MaxNames == 3
\* Number of pipeline plugins of the settings.
MaxPipelinePlugins == 2

(***************************************************************************)
(* Plugins.                                                                *)
(***************************************************************************)
\* Id of every SeparatorPlugin instance.  Its rank among the Guids is not
\* special: one plugin id sorts below it, the others above.
SeparatorId == 1

PluginIds == (0..NumPlugins) \ {SeparatorId}

AllIds == PluginIds \cup {SeparatorId}

\* "plugin is SeparatorPlugin"
IsSeparatorPlugin(plugin) == plugin = SeparatorId

\* A nullable reference: null, or a value.
Null == [isNull |-> TRUE, value |-> <<>>]

NotNull(v) == [isNull |-> FALSE, value |-> v]

\* All sequences over S of length at most n.
SeqsUpTo(S, n) == UNION {[1..k -> S] : k \in 0..n}

\* All orders in which the elements of the finite set S can be enumerated.
RECURSIVE Enumerations(_)
Enumerations(S) ==
    IF S = {} THEN {<<>>}
    ELSE UNION {{<<x>> \o e : e \in Enumerations(S \ {x})} : x \in S}

VARIABLES
    pc,                    \* the part of the method that runs next; "done" after it returned
    plugins,               \* IDictionary<Guid, Plugin>: the set of its keys
    displayOrder,          \* IEnumerable<Guid>
    knownPlugins,          \* ISet<Guid>, nullable
    pluginsInDefaultOrder, \* IEnumerable<Plugin>, nullable
    orderedPlugins,        \* the List<Plugin> returned
    registry,              \* the COM plugins key of each registry root
    executor,              \* what the COMPluginExecutor answers for each plugin id
    pluginList,            \* the List<Plugin> that GetCOMPlugins adds to
    comPluginInfos,        \* the List<COMPluginInfo> of GetCOMPlugins
    sortKeepsTies,         \* whether List<T>.Sort leaves equal elements in their order
    includePipelinePlugins,\* the argument of GetPluginsInDefaultOrder, null for the overload without it
    pipelinePlugins,       \* settings.PipelinePlugins
    callers,               \* where each thread is in PluginUtils::GetLocalComputerName
    s_Lock,                \* PluginUtils::s_Lock: the thread that holds it, or NoThread
    s_ComputerName,        \* PluginUtils::s_ComputerName
    s_HasComputerName,     \* PluginUtils::s_HasComputerName
    initRuns,              \* how many times the initialisation ran: 0, 1, or 2 for more
    queryResult,           \* what GetComputerNameW and _wcslwr_s did: "none" before the call
    pipelineSteps,         \* the steps of the pipeline plugin executed
    inputPath,             \* the path given to the pipeline plugin
    stepIndex,             \* the number of steps that ran
    currentPath,           \* the output of the last step that ran
    pipelineFailed,        \* whether a step failed
    pathResult,            \* what the execution of the pipeline returned
    p_vPluginIds,          \* PluginIdsToString: the list of plugin ids
    p_Separator,           \* the separator character of both conversions
    p_rPluginIdsAsString,  \* StringToPluginIds: the string
    vPluginIds,            \* StringToPluginIds: the list returned
    splitKeepsEmpty,       \* whether StringUtils::Split returns the empty parts
    mainMenuDisplayOrder,  \* settings: the main menu display order, or Null
    submenuDisplayOrder,   \* settings: the submenu display order, or Null
    p_PluginId,            \* IsPluginShown: the id looked for
    shown,                 \* IsPluginShown: the value returned
    filePathGiven,         \* GetHiddenDriveShareFilePath: p_rFilePath at the call
    p_rFilePath,           \* GetHiddenDriveShareFilePath: p_rFilePath
    converted,             \* GetHiddenDriveShareFilePath: the value returned
    p_MultiStringValue,    \* GetMultiStringLineBeginningWith: the value
    p_Prefix,              \* GetMultiStringLineBeginningWith: the prefix
    offset,                \* GetMultiStringLineBeginningWith: the local offset
    endOffset,             \* GetMultiStringLineBeginningWith: the local endOffset
    line,                  \* GetMultiStringLineBeginningWith: the local line
    pathPlugin,            \* the plugin of which GetPath runs
    p_File,                \* GetPath: the path given
    pathObtained,          \* GetPath: the local path
    copied,                \* GetPath: what the query of the OS returned
    charsRead              \* GetPath: the characters read from the buffer

orderVars == <<plugins, displayOrder, knownPlugins, pluginsInDefaultOrder, orderedPlugins>>

comVars == <<registry, executor, pluginList, comPluginInfos, sortKeepsTies>>

settingsVars == <<includePipelinePlugins, pipelinePlugins>>

utilsVars == <<callers, s_Lock, s_ComputerName, s_HasComputerName, initRuns, queryResult>>

execVars == <<pipelineSteps, inputPath, stepIndex, currentPath, pipelineFailed, pathResult>>

idVars == <<p_vPluginIds, p_Separator, p_rPluginIdsAsString, vPluginIds, splitKeepsEmpty>>

shownVars == <<mainMenuDisplayOrder, submenuDisplayOrder, p_PluginId, shown>>

shareVars == <<filePathGiven, p_rFilePath, converted>>

multiVars == <<p_MultiStringValue, p_Prefix, offset, endOffset, line>>

nameVars == <<pathPlugin, p_File, pathObtained, copied, charsRead>>

pathVars == <<idVars, shownVars, shareVars, multiVars, nameVars>>

vars == <<pc, orderVars, comVars, settingsVars, utilsVars, execVars, pathVars>>

IdsIdle ==
    /\ p_vPluginIds = <<>> /\ p_Separator = "" /\ p_rPluginIdsAsString = <<>> /\ vPluginIds = <<>>
    /\ splitKeepsEmpty = FALSE

ShownIdle ==
    /\ mainMenuDisplayOrder = <<>> /\ submenuDisplayOrder = <<>> /\ p_PluginId = 0 /\ shown = FALSE

ShareIdle == filePathGiven = <<>> /\ p_rFilePath = <<>> /\ converted = FALSE

MultiIdle ==
    p_MultiStringValue = <<>> /\ p_Prefix = <<>> /\ offset = 0 /\ endOffset = 0 /\ line = <<>>

NameIdle == pathPlugin = "" /\ p_File = <<>> /\ pathObtained = <<>> /\ copied = 0 /\ charsRead = 0

PathIdle == IdsIdle /\ ShownIdle /\ ShareIdle /\ MultiIdle /\ NameIdle

\* The values of the variables of the operations that a call does not use.
UtilsIdle ==
    /\ callers = <<>> /\ s_Lock = 0 /\ s_ComputerName = "" /\ s_HasComputerName = FALSE
    /\ initRuns = 0 /\ queryResult = "none"

ExecIdle ==
    /\ pipelineSteps = <<>> /\ inputPath = <<>> /\ stepIndex = 0 /\ currentPath = <<>>
    /\ pipelineFailed = FALSE /\ pathResult = <<>>

(***************************************************************************)
(* OrderPluginsToDisplay.                                                  *)
(***************************************************************************)
\* Range of a sequence.
Range(s) == {s[i] : i \in DOMAIN s}

\* Variant: the plugins are inserted at the front of the list.
RECURSIVE DisplayOrderWalkInsertFirst(_, _, _)
DisplayOrderWalkInsertFirst(ordered, allPlugins, order) ==
    IF order = <<>> THEN ordered
    ELSE DisplayOrderWalkInsertFirst(IF Head(order) \in allPlugins THEN <<Head(order)>> \o ordered ELSE ordered,
                                     allPlugins, Tail(order))

\* Variant: the result of TryGetValue is not tested.
RECURSIVE DisplayOrderWalkKeepStale(_, _, _)
DisplayOrderWalkKeepStale(ordered, allPlugins, order) ==
    IF order = <<>> THEN ordered
    ELSE DisplayOrderWalkKeepStale(Append(ordered, Head(order)), allPlugins, Tail(order))

\* foreach (Guid id in displayOrder) if (plugins.TryGetValue(id, out plugin)) orderedPlugins.Add(plugin);
RECURSIVE DisplayOrderWalk(_, _, _)
DisplayOrderWalk(ordered, allPlugins, order) ==
    IF order = <<>> THEN ordered
    ELSE DisplayOrderWalk(IF Head(order) \in allPlugins THEN Append(ordered, Head(order)) ELSE ordered,
                          allPlugins, Tail(order))

\* Variant: a List<Guid> in place of the SortedSet<Guid>.
ListAdd(sorted, id) == IF id \in Range(sorted) THEN sorted ELSE Append(sorted, id)

\* SortedSet<Guid>.Add: the set is kept as its ascending sequence.
RECURSIVE SortedSetAdd(_, _)
SortedSetAdd(sorted, id) ==
    IF sorted = <<>> THEN <<id>>
    ELSE IF id = Head(sorted) THEN sorted
    ELSE IF id < Head(sorted) THEN <<id>> \o sorted
    ELSE <<Head(sorted)>> \o SortedSetAdd(Tail(sorted), id)

\* foreach (Plugin plugin in plugins.Values) pluginIds.Add(plugin.Id);
RECURSIVE CollectPluginIds(_, _)
CollectPluginIds(sorted, values) ==
    IF values = <<>> THEN sorted
    ELSE CollectPluginIds(SortedSetAdd(sorted, Head(values)), Tail(values))

\* Variant: the known ids are kept and the others removed.
ExceptWithOthers(sorted, known) == SelectSeq(sorted, LAMBDA id : id \in known)

\* Variant: nothing is subtracted.
ExceptWithNothing(sorted, known) == sorted

\* pluginIds.ExceptWith(knownPlugins)
ExceptWith(sorted, known) == SelectSeq(sorted, LAMBDA id : id \notin known)

\* Variant: the last entry is not looked at.
AddSeparatorAlways(ordered) ==
    IF Len(ordered) > 0 THEN Append(ordered, SeparatorId) ELSE ordered

\* The separator added before the unknown plugins.
AddSeparatorIfNeeded(ordered) ==
    IF Len(ordered) > 0 /\ ~IsSeparatorPlugin(ordered[Len(ordered)])
    THEN Append(ordered, SeparatorId)
    ELSE ordered

\* Variant: every plugin of the default order is added.
DefaultOrderStepAddsAll(st, unknown, plugin) ==
    IF ~IsSeparatorPlugin(plugin)
    THEN [ordered |-> Append(st.ordered, plugin), prevWasUnknown |-> TRUE]
    ELSE IF st.prevWasUnknown
         THEN [ordered |-> Append(st.ordered, plugin), prevWasUnknown |-> FALSE]
         ELSE st

\* Variant: a separator is added after a separator too.
DefaultOrderStepAnySeparator(st, unknown, plugin) ==
    IF ~IsSeparatorPlugin(plugin)
    THEN IF plugin \in unknown
         THEN [ordered |-> Append(st.ordered, plugin), prevWasUnknown |-> TRUE]
         ELSE [ordered |-> st.ordered, prevWasUnknown |-> FALSE]
    ELSE IF st.prevWasUnknown \/ (st.ordered # <<>> /\ IsSeparatorPlugin(st.ordered[Len(st.ordered)]))
         THEN [ordered |-> Append(st.ordered, plugin), prevWasUnknown |-> FALSE]
         ELSE st

\* Variant: prevWasUnknown is not reset once a separator is added.
DefaultOrderStepNoReset(st, unknown, plugin) ==
    IF ~IsSeparatorPlugin(plugin)
    THEN IF plugin \in unknown
         THEN [ordered |-> Append(st.ordered, plugin), prevWasUnknown |-> TRUE]
         ELSE [ordered |-> st.ordered, prevWasUnknown |-> FALSE]
    ELSE IF st.prevWasUnknown
         THEN [ordered |-> Append(st.ordered, plugin), prevWasUnknown |-> TRUE]
         ELSE st

\* One iteration of foreach (Plugin plugin in pluginsInDefaultOrder).
\* st = [ordered, prevWasUnknown]; unknown is the set of pluginIds.
DefaultOrderStep(st, unknown, plugin) ==
    IF ~IsSeparatorPlugin(plugin)
    THEN IF plugin \in unknown
         THEN [ordered |-> Append(st.ordered, plugin), prevWasUnknown |-> TRUE]
         ELSE [ordered |-> st.ordered, prevWasUnknown |-> FALSE]
    ELSE IF st.prevWasUnknown
         THEN [ordered |-> Append(st.ordered, plugin), prevWasUnknown |-> FALSE]
         ELSE st

RECURSIVE DefaultOrderWalk(_, _, _)
DefaultOrderWalk(st, unknown, defaultOrder) ==
    IF defaultOrder = <<>> THEN st.ordered
    ELSE DefaultOrderWalk(DefaultOrderStep(st, unknown, Head(defaultOrder)), unknown, Tail(defaultOrder))

\* foreach (Guid id in pluginIds) if (plugins.TryGetValue(id, out plugin)) orderedPlugins.Add(plugin);
RECURSIVE SortedOrderWalk(_, _, _)
SortedOrderWalk(ordered, allPlugins, pluginIds) ==
    IF pluginIds = <<>> THEN ordered
    ELSE SortedOrderWalk(IF Head(pluginIds) \in allPlugins THEN Append(ordered, Head(pluginIds)) ELSE ordered,
                         allPlugins, Tail(pluginIds))

\* The body of if (knownPlugins != null): allIds is the SortedSet filled
\* from plugins.Values, known the ids of knownPlugins.
AddPluginsNotIn(ordered, allPlugins, allIds, known, defaultOrder) ==
    LET pluginIds == ExceptWith(allIds, known)
    IN  IF Len(pluginIds) > 0
        THEN IF ~defaultOrder.isNull
             THEN DefaultOrderWalk([ordered |-> AddSeparatorIfNeeded(ordered), prevWasUnknown |-> FALSE],
                                   Range(pluginIds), defaultOrder.value)
             ELSE SortedOrderWalk(AddSeparatorIfNeeded(ordered), allPlugins, pluginIds)
        ELSE ordered

\* Variant: a null knownPlugins is taken as the empty set.
AddUnknownPluginsNullAsEmpty(ordered, allPlugins, allIds, known, defaultOrder) ==
    AddPluginsNotIn(ordered, allPlugins, allIds, IF known.isNull THEN {} ELSE known.value, defaultOrder)

\* if (knownPlugins != null) { ... }
AddUnknownPlugins(ordered, allPlugins, allIds, known, defaultOrder) ==
    IF known.isNull THEN ordered
    ELSE AddPluginsNotIn(ordered, allPlugins, allIds, known.value, defaultOrder)

OrderPluginsToDisplay(allPlugins, allIds, order, known, defaultOrder) ==
    AddUnknownPlugins(DisplayOrderWalk(<<>>, allPlugins, order), allPlugins, allIds, known, defaultOrder)

(***************************************************************************)
(* The calls of OrderPluginsToDisplay.                                     *)
(***************************************************************************)
\* The SortedSet<Guid> pluginIds that the loop over plugins.Values can build:
\* one for every order in which the dictionary enumerates its values.
SortedSetsOf(allPlugins) ==
    {CollectPluginIds(<<>>, values) : values \in Enumerations(allPlugins)}

\* The three plugins A, B, C of the documented examples.
ExamplePlugins == <<0, 2, 3>>

PluginA == ExamplePlugins[1]

PluginB == ExamplePlugins[2]

PluginC == ExamplePlugins[3]

\* Example calls: the round trip [A, B, C]; the recovery of the unknown B, C
\* after the known A; two unknown plugins of different default groups with
\* a known plugin before the Separator that parts them.
ExampleCalls ==
    { [plugins |-> {PluginA, PluginB, PluginC}, displayOrder |-> <<PluginA, PluginB, PluginC>>,
       knownPlugins |-> Null, pluginsInDefaultOrder |-> Null],
      [plugins |-> {PluginA, PluginB, PluginC}, displayOrder |-> <<PluginA>>,
       knownPlugins |-> NotNull({PluginA}),
       pluginsInDefaultOrder |-> NotNull(<<PluginA, SeparatorId, PluginB, PluginC>>)],
      [plugins |-> {PluginA, PluginB, PluginC}, displayOrder |-> <<PluginB>>,
       knownPlugins |-> NotNull({PluginB}),
       pluginsInDefaultOrder |-> NotNull(<<PluginA, PluginB, SeparatorId, PluginC>>)] }

\* A call within the bounds.  knownPlugins is drawn among the subsets of the
\* ids of plugins: ExceptWith reads nothing else of it.
BoundedCall ==
    /\ plugins \in SUBSET AllIds
    /\ displayOrder \in SeqsUpTo(AllIds, MaxTotalLen)
    /\ knownPlugins \in {Null} \cup {NotNull(k) : k \in SUBSET plugins}
    /\ pluginsInDefaultOrder \in
          {Null} \cup {NotNull(d) : d \in SeqsUpTo(AllIds, MaxTotalLen - Len(displayOrder))}

ExampleCall ==
    \E c \in ExampleCalls :
        /\ plugins = c.plugins
        /\ displayOrder = c.displayOrder
        /\ knownPlugins = c.knownPlugins
        /\ pluginsInDefaultOrder = c.pluginsInDefaultOrder

InitOrder ==
    /\ pc = "start"
    /\ BoundedCall \/ ExampleCall
    /\ orderedPlugins = <<>>
    /\ registry = <<>> /\ executor = <<>> /\ pluginList = <<>> /\ comPluginInfos = <<>>
    /\ sortKeepsTies = TRUE
    /\ includePipelinePlugins = Null /\ pipelinePlugins = <<>>
    /\ UtilsIdle /\ ExecIdle /\ PathIdle

CallOrderPluginsToDisplay ==
    /\ pc = "start"
    /\ \E allIds \in SortedSetsOf(plugins) :
          orderedPlugins' = OrderPluginsToDisplay(plugins, allIds, displayOrder, knownPlugins,
                                                  pluginsInDefaultOrder)
    /\ pc' = "done"
    /\ UNCHANGED <<plugins, displayOrder, knownPlugins, pluginsInDefaultOrder, comVars, settingsVars, utilsVars, execVars, pathVars>>

NextOrder == CallOrderPluginsToDisplay

SpecOrder == InitOrder /\ [][NextOrder]_vars

(***************************************************************************)
(* What the properties of OrderPluginsToDisplay are stated with.  None of  *)
(* it is used by the operators above.                                      *)
(***************************************************************************)
\* The ids that occur in the calls.
Universe == AllIds \cup Range(ExamplePlugins)

\* The ids of displayOrder that are keys of plugins, in the order of displayOrder.
Displayed == SelectSeq(displayOrder, LAMBDA id : id \in plugins)

\* ids(plugins) minus knownPlugins.
UnknownIds == IF knownPlugins.isNull THEN {} ELSE plugins \ knownPlugins.value

HasUnknown == ~knownPlugins.isNull /\ UnknownIds # {}

\* The display-order result is non-empty and does not end with a Separator.
SeparatorExpected == Displayed # <<>> /\ ~IsSeparatorPlugin(Displayed[Len(Displayed)])

\* Number of entries expected before the first entry of the unknown walk.
UnknownStart == Len(Displayed) + (IF SeparatorExpected THEN 1 ELSE 0)

\* The entries after them.
UnknownRun == SubSeq(orderedPlugins, UnknownStart + 1, Len(orderedPlugins))

Count(x, s) == Cardinality({i \in DOMAIN s : s[i] = x})

\* The elements of the set S of ids in ascending order.
Ascending(S) ==
    CHOOSE s \in [1..Cardinality(S) -> S] : \A i, j \in 1..Cardinality(S) : i < j => s[i] < s[j]

\* The positions of pluginsInDefaultOrder that hold an unknown, non-separator plugin.
UnknownPositions ==
    {q \in DOMAIN pluginsInDefaultOrder.value :
        /\ ~IsSeparatorPlugin(pluginsInDefaultOrder.value[q])
        /\ pluginsInDefaultOrder.value[q] \in UnknownIds}

\* The positions of the unknown run that hold a non-separator plugin.
PluginPositions == {i \in DOMAIN UnknownRun : ~IsSeparatorPlugin(UnknownRun[i])}

\* The k-th smallest element of the set P of positions.
Nth(P, k) == CHOOSE q \in P : Cardinality({r \in P : r < q}) = k - 1

DefaultWalkDone ==
    pc = "done" /\ HasUnknown /\ ~pluginsInDefaultOrder.isNull

(***************************************************************************)
(* C1: the entries produced by the display-order walk are the ids of       *)
(* displayOrder that are keys of plugins, in the order of displayOrder;    *)
(* the other ids of displayOrder contribute nothing.  The walk's entries   *)
(* are the head of the returned list, and the whole of it when no unknown  *)
(* plugin is added.                                                        *)
(***************************************************************************)
C1_DisplayOrderWalk ==
    pc = "done" =>
        /\ Len(orderedPlugins) >= Len(Displayed)
        /\ SubSeq(orderedPlugins, 1, Len(Displayed)) = Displayed
        /\ ~HasUnknown => orderedPlugins = Displayed

\* A stale id between two ids that are keys of plugins.
C1_Witness ==
    /\ pc = "done"
    /\ Len(displayOrder) = 3
    /\ displayOrder[1] \in plugins /\ displayOrder[2] \notin plugins /\ displayOrder[3] \in plugins
    /\ displayOrder[1] # displayOrder[3]
    /\ orderedPlugins = <<displayOrder[1], displayOrder[3]>>

C4_NoKnownPlugins ==
    (pc = "done" /\ knownPlugins.isNull) =>
        /\ orderedPlugins = Displayed
        /\ ( plugins = {PluginA, PluginB, PluginC}
             /\ displayOrder = <<PluginA, PluginB, PluginC>> )
           => orderedPlugins = <<PluginA, PluginB, PluginC>>

\* A null knownPlugins, a pluginsInDefaultOrder that holds a plugin missing
\* from displayOrder, and a display-order result that would take a Separator.
C4_Witness ==
    /\ pc = "done"
    /\ knownPlugins.isNull
    /\ ~pluginsInDefaultOrder.isNull
    /\ \E id \in plugins \ {SeparatorId} :
          id \in Range(pluginsInDefaultOrder.value) /\ id \notin Range(displayOrder)
    /\ SeparatorExpected
    /\ orderedPlugins = Displayed

(***************************************************************************)
(* C5: in the walk of pluginsInDefaultOrder a Separator is appended only   *)
(* right after an unknown plugin appended by the same walk: every          *)
(* Separator of the unknown run has a predecessor in the run, and that     *)
(* predecessor is a non-separator plugin whose id is unknown.              *)
(***************************************************************************)
C5_SeparatorAfterUnknown ==
    DefaultWalkDone =>
        \A i \in DOMAIN UnknownRun :
            IsSeparatorPlugin(UnknownRun[i]) =>
                /\ i > 1
                /\ ~IsSeparatorPlugin(UnknownRun[i - 1])
                /\ UnknownRun[i - 1] \in UnknownIds

\* pluginsInDefaultOrder holds two adjacent Separators after an unknown
\* plugin, and a Separator before the first unknown plugin; one is kept.
C5_Witness ==
    /\ DefaultWalkDone
    /\ Len(pluginsInDefaultOrder.value) = 3
    /\ pluginsInDefaultOrder.value[1] \in UnknownIds \ {SeparatorId}
    /\ IsSeparatorPlugin(pluginsInDefaultOrder.value[2])
    /\ IsSeparatorPlugin(pluginsInDefaultOrder.value[3])
    /\ UnknownRun = <<pluginsInDefaultOrder.value[1], SeparatorId>>

(***************************************************************************)
(* C6 as claimed: the default grouping of the unknown plugins is kept.     *)
(* For the k-th and (k+1)-th unknown plugins of the unknown run, taken at  *)
(* their positions in pluginsInDefaultOrder, a Separator stands between    *)
(* them in the returned list if and only if a Separator stands between     *)
(* them in pluginsInDefaultOrder; and no Separator of the unknown run      *)
(* comes from a place of pluginsInDefaultOrder that follows a plugin       *)
(* already known.                                                          *)
(***************************************************************************)
C6_DefaultGroupingKept ==
    DefaultWalkDone =>
        /\ Cardinality(PluginPositions) = Cardinality(UnknownPositions)
        /\ \A k \in 1..(Cardinality(PluginPositions) - 1) :
              (\E i \in DOMAIN UnknownRun :
                  /\ Nth(PluginPositions, k) < i /\ i < Nth(PluginPositions, k + 1)
                  /\ IsSeparatorPlugin(UnknownRun[i]))
              <=>
              (\E q \in DOMAIN pluginsInDefaultOrder.value :
                  /\ Nth(UnknownPositions, k) < q /\ q < Nth(UnknownPositions, k + 1)
                  /\ IsSeparatorPlugin(pluginsInDefaultOrder.value[q]))
        /\ Count(SeparatorId, UnknownRun) <=
              Cardinality({q \in DOMAIN pluginsInDefaultOrder.value :
                              /\ IsSeparatorPlugin(pluginsInDefaultOrder.value[q])
                              /\ (q - 1) \in UnknownPositions})

(***************************************************************************)
(* C7 as claimed (the documentation of knownPlugins): when knownPlugins    *)
(* is supplied, every plugin of plugins that is not found in displayOrder  *)
(* is in the returned list, after the display-order entries.  It is        *)
(* stated on the calls whose pluginsInDefaultOrder, when given, holds      *)
(* every plugin of plugins, as its documentation asks.                     *)
(***************************************************************************)
C7_MissingFromDisplayOrderAdded ==
    ( /\ pc = "done"
      /\ ~knownPlugins.isNull
      /\ pluginsInDefaultOrder.isNull \/ plugins \subseteq Range(pluginsInDefaultOrder.value) )
    => \A id \in plugins \ {SeparatorId} :
          id \notin Range(displayOrder) =>
              \E i \in DOMAIN orderedPlugins : i > Len(Displayed) /\ orderedPlugins[i] = id

(***************************************************************************)
(* C8 as claimed: with knownPlugins and without pluginsInDefaultOrder,     *)
(* every unknown id is appended exactly once, in ascending order of the    *)
(* ids, and no Separator stands between two of the appended plugins.       *)
(***************************************************************************)
C8_SortedWithoutSeparator ==
    (pc = "done" /\ HasUnknown /\ pluginsInDefaultOrder.isNull) =>
        /\ UnknownRun = Ascending(UnknownIds)
        /\ ~\E i, j, k \in DOMAIN UnknownRun :
              /\ i < j /\ j < k
              /\ ~IsSeparatorPlugin(UnknownRun[i])
              /\ IsSeparatorPlugin(UnknownRun[j])
              /\ ~IsSeparatorPlugin(UnknownRun[k])

(***************************************************************************)
(* C8 as amended: with knownPlugins and without pluginsInDefaultOrder the  *)
(* returned list is the display-order entries, the Separator added when    *)
(* they do not end with one, and every unknown id exactly once in          *)
(* ascending order of the ids, whatever the order in which the dictionary  *)
(* enumerates its values.  No Separator is inserted among them; a          *)
(* Separator is in the run only as the SeparatorPlugin of plugins, at the  *)
(* place of its own id, when that id is unknown.                           *)
(***************************************************************************)
C8_SortedFallback ==
    (pc = "done" /\ HasUnknown /\ pluginsInDefaultOrder.isNull) =>
        /\ orderedPlugins =
              Displayed \o (IF SeparatorExpected THEN <<SeparatorId>> ELSE <<>>) \o Ascending(UnknownIds)
        /\ SeparatorId \notin UnknownIds =>
              \A i \in DOMAIN UnknownRun : ~IsSeparatorPlugin(UnknownRun[i])

\* Two unknown plugins, sorted, after a known one.
C8_Witness ==
    /\ pc = "done" /\ HasUnknown /\ pluginsInDefaultOrder.isNull
    /\ Cardinality(UnknownIds) >= 2
    /\ SeparatorId \notin UnknownIds
    /\ Len(Displayed) = 1
    /\ orderedPlugins = Displayed \o <<SeparatorId>> \o Ascending(UnknownIds)

(***************************************************************************)
(* C9: when plugins is empty the returned list is empty, whatever          *)
(* displayOrder, knownPlugins and pluginsInDefaultOrder hold.              *)
(***************************************************************************)
C9_EmptyState ==
    (pc = "done" /\ plugins = {}) => orderedPlugins = <<>>

\* No plugin, a displayOrder, an empty knownPlugins and a pluginsInDefaultOrder
\* that hold ids and Separators.
C9_Witness ==
    /\ pc = "done"
    /\ plugins = {}
    /\ Len(displayOrder) >= 2
    /\ SeparatorId \in Range(displayOrder)
    /\ ~knownPlugins.isNull
    /\ ~pluginsInDefaultOrder.isNull
    /\ pluginsInDefaultOrder.value # <<>>
    /\ orderedPlugins = <<>>

(***************************************************************************)
(* GetDefaultPlugins, GetCOMPlugins.                                       *)
(***************************************************************************)
\* Int32.MaxValue
Int32MaxValue == 2147483647

\* Int32.MinValue
Int32MinValue == (-Int32MaxValue) - 1

\* a - b of two ints in the unchecked context the assembly is built in: the
\* difference, less 2^32 when it is above Int32.MaxValue and plus 2^32 when
\* it is below Int32.MinValue.
Sub32(a, b) ==
    IF b < 0 /\ a > Int32MaxValue + b
    THEN ((a - Int32MaxValue) - 1) - ((b + Int32MaxValue) + 1)
    ELSE IF b > 0 /\ a < Int32MinValue + b
    THEN ((a + Int32MaxValue) + 1) + ((Int32MaxValue - b) + 1)
    ELSE a - b

\* Variant: a separator is added after the last group too.
GetDefaultPluginsTrailingSeparator(list) ==
    list \o << -1, -2, SeparatorId, -3, -4, SeparatorId, -5, -6, SeparatorId, -7, -8, SeparatorId,
               -9, -10, SeparatorId, -11, -12, SeparatorId, -13, -14, -15, -16, SeparatorId >>

\* plugins.Add(...) of GetDefaultPlugins: the built-in plugins, numbered
\* -1, -2, ... in the order of the calls, and the separators between them.
GetDefaultPlugins(list) ==
    list \o << -1, -2, SeparatorId, -3, -4, SeparatorId, -5, -6, SeparatorId, -7, -8, SeparatorId,
               -9, -10, SeparatorId, -11, -12, SeparatorId, -13, -14, -15, -16 >>

\* The ids of the COM plugins.
ComIds == {SeparatorId + k : k \in 1..NumComIds}

\* Two of the texts that new Guid(string) reads as the same Guid.
GuidFormats == {"D", "B"}

\* LEGACY_COM_PLUGINS_LAST_UPDATE_VALUE_NAME
LastUpdateName == [text |-> "LastUpdate", id |-> 0]

\* A value name that is no Guid.
NotAGuidName == [text |-> "not-a-guid", id |-> 0]

\* The value names that are the Guid id, written in one of the formats.
GuidNames == [text : GuidFormats, id : ComIds]

\* The queries of the COMPluginExecutor, in the order of the calls.
Queries == <<"GetDescription", "GetGroupId", "GetGroupPosition", "GetUseDefaultIcon", "GetIconFile">>

\* The group ids and the group positions drawn.
GroupValues == {-2, 0, Int32MaxValue}

PositionValues == {0, 1}

\* regKeyInfos: the Global flag of each key, in the order of the scan.
RegKeyInfos == <<TRUE, FALSE>>

\* idAsGuid: null for the legacy marker and for what new Guid(id) rejects.
ParseGuid(name) ==
    IF name = LastUpdateName THEN Null
    ELSE IF name.text \in GuidFormats THEN NotNull(name.id)
    ELSE Null

\* Variant: only the first query is inside the try.
FetchFailsDescriptionOnly(answers) == "GetDescription" \in answers.fails

\* Whether one of the queries made for the plugin throws COMPluginExecutorException.
FetchFails(answers) ==
    \/ answers.fails \cap {"GetDescription", "GetGroupId", "GetGroupPosition", "GetUseDefaultIcon"} # {}
    \/ ~answers.useDefaultIcon /\ "GetIconFile" \in answers.fails

\* The body of foreach (string id in ids).
AddCandidate(infos, exec, global, name) ==
    LET idAsGuid == ParseGuid(name)
    IN  IF idAsGuid.isNull THEN infos
        ELSE IF FetchFails(exec[idAsGuid.value]) THEN infos
        ELSE Append(infos, [Id |-> idAsGuid.value, Global |-> global,
                            GroupId |-> exec[idAsGuid.value].GroupId,
                            GroupPosition |-> exec[idAsGuid.value].GroupPosition])

\* Variant: a value name that is no Guid ends the loop.
RECURSIVE AddCandidatesStopAtInvalid(_, _, _, _)
AddCandidatesStopAtInvalid(infos, exec, global, ids) ==
    IF ids = <<>> THEN infos
    ELSE IF ParseGuid(Head(ids)).isNull THEN infos
    ELSE AddCandidatesStopAtInvalid(AddCandidate(infos, exec, global, Head(ids)), exec, global, Tail(ids))

RECURSIVE AddCandidates(_, _, _, _)
AddCandidates(infos, exec, global, ids) ==
    IF ids = <<>> THEN infos
    ELSE AddCandidates(AddCandidate(infos, exec, global, Head(ids)), exec, global, Tail(ids))

\* Variant: the value names of a key are read whatever the access to it.
ScanKeyIgnoresAccess(infos, exec, global, key, ids) == AddCandidates(infos, exec, global, ids)

\* The scan of one key: nothing is read of a key that is missing
\* (OpenSubKey returns null) or denied (SecurityException); ids is what
\* GetValueNames returns.
ScanKey(infos, exec, global, key, ids) ==
    IF key.access = "ok" THEN AddCandidates(infos, exec, global, ids) ELSE infos

\* s with its elements in the order p of their indices.
Reorder(s, p) == [i \in DOMAIN s |-> s[p[i]]]

\* One step of a sort by insertion: the index i is moved towards the front
\* of the sorted indices while the element before it compares greater, or
\* equal when the sort does not keep ties.  cmp[i, j] is what the
\* comparison returns for the elements of indices i and j.
RECURSIVE SortInsert(_, _, _, _)
SortInsert(sorted, i, cmp, keepsTies) ==
    IF sorted = <<>> THEN <<i>>
    ELSE LET last == sorted[Len(sorted)]
         IN  IF cmp[last, i] > 0 \/ (~keepsTies /\ cmp[last, i] = 0)
             THEN Append(SortInsert(SubSeq(sorted, 1, Len(sorted) - 1), i, cmp, keepsTies), last)
             ELSE Append(sorted, i)

RECURSIVE SortOrder(_, _, _, _)
SortOrder(sorted, n, cmp, keepsTies) ==
    IF Len(sorted) = n THEN sorted
    ELSE SortOrder(SortInsert(sorted, Len(sorted) + 1, cmp, keepsTies), n, cmp, keepsTies)

\* List<T>.Sort(Comparison<T>): an unstable sort.  The list it leaves is a
\* function of the list it is given and of what the comparison returns;
\* which of the orders of equal elements it is, is not specified: the two
\* sorts modelled keep them all or reverse them all.
Sort(s, cmp, keepsTies) == Reorder(s, SortOrder(<<>>, Len(s), cmp, keepsTies))

\* Variant: info1 is compared with itself.
CompareIdsSelf(info1, info2) == info1.Id - info1.Id

\* info1.Plugin.Id.CompareTo(info2.Plugin.Id)
CompareIds(info1, info2) == info1.Id - info2.Id

\* What the comparison by id returns for each two elements of infos.
IdComparisons(infos) == [i, j \in DOMAIN infos |-> CompareIds(infos[i], infos[j])]

\* The comparison of the second sort.
CompareGroups(info1, info2) ==
    LET cmp == Sub32(info1.GroupId, info2.GroupId)
    IN  IF cmp = 0 THEN Sub32(info1.GroupPosition, info2.GroupPosition) ELSE cmp

\* What the comparison by group returns for each two elements of infos.
GroupComparisons(infos) == [i, j \in DOMAIN infos |-> CompareGroups(infos[i], infos[j])]

\* List<T>.RemoveAt(i), the first index being 1.
RemoveAt(s, i) == SubSeq(s, 1, i - 1) \o SubSeq(s, i + 1, Len(s))

\* Variant: the loop stops one index early.
RECURSIVE RemoveDuplicatesStopEarly(_, _)
RemoveDuplicatesStopEarly(infos, i) ==
    IF i <= 2 THEN infos
    ELSE RemoveDuplicatesStopEarly(IF infos[i].Id = infos[i - 1].Id THEN RemoveAt(infos, i) ELSE infos, i - 1)

\* for (int i = comPluginInfos.Count - 1; i > 0; --i): i is the index of
\* comPluginInfos[i] counted from 1.
RECURSIVE RemoveDuplicates(_, _)
RemoveDuplicates(infos, i) ==
    IF i <= 1 THEN infos
    ELSE RemoveDuplicates(IF infos[i].Id = infos[i - 1].Id THEN RemoveAt(infos, i) ELSE infos, i - 1)

\* Variant: plugins.Count is not tested.
CopyPluginNoCountTest(st, info) ==
    [list |-> Append(IF st.currentGroup # info.GroupId
                     THEN Append(st.list, SeparatorId)
                     ELSE st.list,
                     info.Id),
     currentGroup |-> info.GroupId]

\* The body of foreach (var info in comPluginInfos) of the copy.
\* st = [list, currentGroup].
CopyPlugin(st, info) ==
    [list |-> Append(IF Len(st.list) > 0 /\ st.currentGroup # info.GroupId
                     THEN Append(st.list, SeparatorId)
                     ELSE st.list,
                     info.Id),
     currentGroup |-> info.GroupId]

RECURSIVE CopyPlugins(_, _)
CopyPlugins(st, infos) ==
    IF infos = <<>> THEN st.list
    ELSE CopyPlugins(CopyPlugin(st, Head(infos)), Tail(infos))

(***************************************************************************)
(* The calls of GetCOMPlugins: one action for each part of the method.     *)
(***************************************************************************)
\* The idle values of the variables of the other method.
OrderIdle ==
    /\ plugins = {} /\ displayOrder = <<>> /\ knownPlugins = Null
    /\ pluginsInDefaultOrder = Null /\ orderedPlugins = <<>>

\* The idle values of the variables of GetPluginsInDefaultOrder.
SettingsIdle == includePipelinePlugins = Null /\ pipelinePlugins = <<>>

\* Both keys can be read, every value name is a Guid and every query is
\* answered.  An id is written in the two formats in the machine-wide key
\* only.  The executor is asked only about the ids named in the keys: what
\* it would answer for another id is left at 0.
InitCOM ==
    /\ pc = "scan"
    /\ registry \in [BOOLEAN -> [access : {"ok"}, names : SUBSET GuidNames]]
    /\ \A n \in registry[FALSE].names : n.text = "D"
    /\ Cardinality(registry[TRUE].names) + Cardinality(registry[FALSE].names) <= MaxNames
    /\ executor \in [ComIds -> [fails : {{}}, useDefaultIcon : {TRUE},
                                GroupId : GroupValues, GroupPosition : PositionValues]]
    /\ \A id \in ComIds \ {n.id : n \in registry[TRUE].names \cup registry[FALSE].names} :
          executor[id].GroupId = 0 /\ executor[id].GroupPosition = 0
    /\ pluginList \in {<<>>, GetDefaultPlugins(<<>>)}
    /\ comPluginInfos = <<>>
    /\ sortKeepsTies \in BOOLEAN
    /\ OrderIdle
    /\ UtilsIdle /\ ExecIdle /\ PathIdle
    /\ SettingsIdle

\* What the executor may answer for a plugin when a query may throw: at most
\* one query throws, and GetUseDefaultIcon answers false only where that
\* decides whether GetIconFile is called.
FaultyAnswers ==
    {a \in [fails : {{}} \cup {{q} : q \in Range(Queries)}, useDefaultIcon : BOOLEAN,
            GroupId : {0}, GroupPosition : {0}] :
        a.useDefaultIcon \/ a.fails \subseteq {"GetIconFile"}}

\* GetCOMPlugins as GetPluginsInDefaultOrder calls it, on the list of the
\* built-in plugins.  One of the keys may be missing or denied, a value name
\* may be the legacy marker or no Guid, and one of the queries made for a
\* plugin may throw.  A missing key has no value names.  The value names
\* name at most two plugins, and a plugin of which no key that can be read
\* holds the id is not queried: its answers are not drawn.
InitCOMFaults ==
    /\ pc = "scan"
    /\ registry \in [BOOLEAN -> [access : {"ok", "missing", "denied"},
                                 names : SUBSET (GuidNames \cup {LastUpdateName, NotAGuidName})]]
    /\ ~(registry[TRUE].access # "ok" /\ registry[FALSE].access # "ok")
    /\ \A global \in BOOLEAN : registry[global].access = "missing" => registry[global].names = {}
    /\ \A n \in registry[FALSE].names : n.text # "B"
    /\ Cardinality(registry[TRUE].names) + Cardinality(registry[FALSE].names) <= MaxNames
    /\ Cardinality({n.id : n \in (registry[TRUE].names \cup registry[FALSE].names) \cap GuidNames}) <= 2
    /\ executor \in [ComIds -> FaultyAnswers]
    /\ \A id \in ComIds \ UNION {{n.id : n \in registry[global].names \cap GuidNames} :
                                      global \in {g \in BOOLEAN : registry[g].access = "ok"}} :
          executor[id] = [fails |-> {}, useDefaultIcon |-> TRUE, GroupId |-> 0, GroupPosition |-> 0]
    /\ pluginList = GetDefaultPlugins(<<>>)
    /\ comPluginInfos = <<>>
    /\ sortKeepsTies = TRUE
    /\ OrderIdle
    /\ UtilsIdle /\ ExecIdle /\ PathIdle
    /\ SettingsIdle

\* foreach (COMPluginsRegKeyInfo regKeyInfo in regKeyInfos) { ... }
ScanRegistry ==
    /\ pc = "scan"
    /\ \E ids1 \in Enumerations(registry[RegKeyInfos[1]].names),
          ids2 \in Enumerations(registry[RegKeyInfos[2]].names) :
          comPluginInfos' =
              ScanKey(ScanKey(<<>>, executor, RegKeyInfos[1], registry[RegKeyInfos[1]], ids1),
                      executor, RegKeyInfos[2], registry[RegKeyInfos[2]], ids2)
    /\ pc' = IF Len(comPluginInfos') > 1 THEN "sortIds" ELSE "sortGroups"
    /\ UNCHANGED <<registry, executor, pluginList, sortKeepsTies, orderVars, settingsVars, utilsVars, execVars, pathVars>>

\* comPluginInfos.Sort(... Id.CompareTo ...)
SortByIds ==
    /\ pc = "sortIds"
    /\ \E cmp \in {IdComparisons(comPluginInfos)} : comPluginInfos' = Sort(comPluginInfos, cmp, sortKeepsTies)
    /\ pc' = "dedupe"
    /\ UNCHANGED <<registry, executor, pluginList, sortKeepsTies, orderVars, settingsVars, utilsVars, execVars, pathVars>>

\* The loop that removes the duplicates.
RemoveDuplicateIds ==
    /\ pc = "dedupe"
    /\ comPluginInfos' = RemoveDuplicates(comPluginInfos, Len(comPluginInfos))
    /\ pc' = "sortGroups"
    /\ UNCHANGED <<registry, executor, pluginList, sortKeepsTies, orderVars, settingsVars, utilsVars, execVars, pathVars>>

\* comPluginInfos.Sort(... GroupId, GroupPosition ...)
SortByGroups ==
    /\ pc = "sortGroups"
    /\ \E cmp \in {GroupComparisons(comPluginInfos)} : comPluginInfos' = Sort(comPluginInfos, cmp, sortKeepsTies)
    /\ pc' = "copy"
    /\ UNCHANGED <<registry, executor, pluginList, sortKeepsTies, orderVars, settingsVars, utilsVars, execVars, pathVars>>

\* Copy all plugins to provided list. Insert a separator between groups.
CopyToList ==
    /\ pc = "copy"
    /\ pluginList' = IF Len(comPluginInfos) > 0
                     THEN CopyPlugins([list |-> pluginList, currentGroup |-> Int32MaxValue], comPluginInfos)
                     ELSE pluginList
    /\ pc' = "done"
    /\ UNCHANGED <<registry, executor, comPluginInfos, sortKeepsTies, orderVars, settingsVars, utilsVars, execVars, pathVars>>

NextCOM == ScanRegistry \/ SortByIds \/ RemoveDuplicateIds \/ SortByGroups \/ CopyToList

SpecCOM == InitCOM /\ [][NextCOM]_vars

SpecCOMFaults == InitCOMFaults /\ [][NextCOM]_vars

(***************************************************************************)
(* What the properties of GetCOMPlugins are stated with.                   *)
(***************************************************************************)
\* The value names that give a candidate: those of a key that can be read,
\* that are a Guid whose queries are all answered.
CandidateNames(global) ==
    IF registry[global].access = "ok"
    THEN {n \in registry[global].names :
             n.text \in GuidFormats /\ ~FetchFails(executor[n.id])}
    ELSE {}

CandidateIds == {n.id : n \in CandidateNames(TRUE) \cup CandidateNames(FALSE)}

\* The COM plugins of the list, in its order.
EmittedCOMPlugins == SelectSeq(pluginList, LAMBDA id : id \in ComIds)

\* The first element of each run of equal ids of s.
FirstOfRuns(s) ==
    LET firsts == {i \in DOMAIN s : i = 1 \/ s[i].Id # s[i - 1].Id}
    IN  [k \in 1..Cardinality(firsts) |-> s[Nth(firsts, k)]]

(***************************************************************************)
(* C10: the COM plugins emitted hold each candidate id exactly once, and   *)
(* no other id, however many value names of the two keys give the id; the  *)
(* list is sorted by id when the duplicates are removed, and the instance  *)
(* kept for an id is the first one of its run in that sorted list.         *)
(***************************************************************************)
C10_Deduplication ==
    [][ /\ pc = "dedupe" =>
              /\ \A i, j \in DOMAIN comPluginInfos : i < j => comPluginInfos[i].Id <= comPluginInfos[j].Id
              /\ comPluginInfos' = FirstOfRuns(comPluginInfos)
        /\ pc' = "done" =>
              \A id \in ComIds :
                  Count(id, EmittedCOMPlugins') = (IF id \in CandidateIds' THEN 1 ELSE 0) ]_vars

\* An id that three value names give, in both keys, is emitted once.
C10_Witness ==
    /\ pc = "done"
    /\ \E id \in ComIds :
          /\ Cardinality({n \in CandidateNames(TRUE) : n.id = id}) = 2
          /\ Cardinality({n \in CandidateNames(FALSE) : n.id = id}) = 1
          /\ Count(id, EmittedCOMPlugins) = 1

(***************************************************************************)
(* C11: the COM plugins are emitted in ascending group id and, within a    *)
(* group id, in ascending group position, whatever the group ids and the   *)
(* group positions are, those whose difference is no int included.         *)
(***************************************************************************)
C11_AscendingGroups ==
    pc = "done" =>
        \A i, j \in DOMAIN EmittedCOMPlugins :
            i < j =>
                LET first == executor[EmittedCOMPlugins[i]]
                    second == executor[EmittedCOMPlugins[j]]
                IN  \/ first.GroupId < second.GroupId
                    \/ first.GroupId = second.GroupId /\ first.GroupPosition <= second.GroupPosition

\* What the step adds at the end of the list.
Appended == SubSeq(pluginList', Len(pluginList) + 1, Len(pluginList'))

(***************************************************************************)
(* C12: the copy keeps the list and adds COM plugins and Separators only;  *)
(* two COM plugins added one after the other have exactly one Separator    *)
(* between them if their group ids differ and none if they are equal; and  *)
(* nothing stands before the first COM plugin in a list that was empty.    *)
(***************************************************************************)
C12_SeparatorInsertion ==
    [][ pc = "copy" =>
          /\ SubSeq(pluginList', 1, Len(pluginList)) = pluginList
          /\ \A i \in DOMAIN Appended : Appended[i] \in ComIds \/ IsSeparatorPlugin(Appended[i])
          /\ LET P == {i \in DOMAIN Appended : Appended[i] \in ComIds}
             IN  \A i, j \in P :
                     (i < j /\ \A k \in P : ~(i < k /\ k < j)) =>
                         (j - i) - 1 = (IF executor[Appended[i]].GroupId # executor[Appended[j]].GroupId
                                        THEN 1 ELSE 0)
          /\ (pluginList = <<>> /\ Appended # <<>>) => Appended[1] \in ComIds ]_vars

\* Two COM plugins of different groups were added to an empty list.
C12_Witness ==
    /\ pc = "done"
    /\ Len(pluginList) = 3
    /\ pluginList[1] \in ComIds /\ IsSeparatorPlugin(pluginList[2]) /\ pluginList[3] \in ComIds
    /\ executor[pluginList[1]].GroupId # executor[pluginList[3]].GroupId

(***************************************************************************)
(* What the properties of the scan are stated with.                        *)
(***************************************************************************)
\* The lists that the scan of the keys reg can fill, one for every order in
\* which GetValueNames returns the value names of each key.
ScanResults(reg, exec) ==
    {ScanKey(ScanKey(<<>>, exec, TRUE, reg[TRUE], ids1), exec, FALSE, reg[FALSE], ids2) :
        ids1 \in Enumerations(reg[TRUE].names), ids2 \in Enumerations(reg[FALSE].names)}

\* The keys reg without the value names N.
WithoutNames(reg, N) == [global \in BOOLEAN |-> [reg[global] EXCEPT !.names = @ \ N]]

\* The keys reg, each denied key replaced by a key without value names.
WithoutDeniedKeys(reg) ==
    [global \in BOOLEAN |->
        IF reg[global].access = "denied" THEN [access |-> "ok", names |-> {}] ELSE reg[global]]

\* The value names that are no Guid.
InvalidNames == {LastUpdateName, NotAGuidName}

\* One of the queries that GetCOMPlugins makes for the plugin throws: the
\* icon file is asked for only when the default icon is not used.
QueryThrows(id) ==
    \E q \in executor[id].fails : q # "GetIconFile" \/ ~executor[id].useDefaultIcon

(***************************************************************************)
(* C13: a value name that is no Guid, the legacy marker included, gives no *)
(* plugin and does not end the scan: the list the scan fills is one that   *)
(* the scan fills when the keys do not hold these names.                   *)
(***************************************************************************)
C13_InvalidNamesSkipped ==
    [][ pc = "scan" =>
          /\ pc' \in {"sortIds", "sortGroups"}
          /\ \A i \in DOMAIN comPluginInfos' : comPluginInfos'[i].Id \in ComIds
          /\ comPluginInfos' \in ScanResults(WithoutNames(registry, InvalidNames), executor) ]_vars

\* A key held the legacy marker, a name that is no Guid and the id of a
\* plugin, and the plugin was emitted.
C13_Witness ==
    /\ pc = "done"
    /\ \E global \in BOOLEAN :
          /\ registry[global].access = "ok"
          /\ InvalidNames \subseteq registry[global].names
          /\ \E n \in registry[global].names \cap GuidNames :
                ~QueryThrows(n.id) /\ Count(n.id, EmittedCOMPlugins) = 1

(***************************************************************************)
(* C14: a plugin for which one of the queries throws, the first or a later *)
(* one, is not added at all, and the list the scan fills is one that the   *)
(* scan fills when the keys do not hold the ids of these plugins.          *)
(***************************************************************************)
C14_FetchFailureSkipped ==
    [][ pc = "scan" =>
          /\ pc' \in {"sortIds", "sortGroups"}
          /\ \A i \in DOMAIN comPluginInfos' : ~QueryThrows(comPluginInfos'[i].Id)
          /\ comPluginInfos' \in
                ScanResults(WithoutNames(registry, {n \in GuidNames : QueryThrows(n.id)}), executor) ]_vars

\* A key held the ids of two plugins; a query after the first one threw for
\* one of them, which was not emitted, and the other one was emitted.
C14_Witness ==
    /\ pc = "done"
    /\ \E global \in BOOLEAN, n1, n2 \in GuidNames :
          /\ registry[global].access = "ok"
          /\ {n1, n2} \subseteq registry[global].names
          /\ QueryThrows(n1.id) /\ "GetDescription" \notin executor[n1.id].fails
          /\ ~QueryThrows(n2.id)
          /\ Count(n1.id, EmittedCOMPlugins) = 0
          /\ Count(n2.id, EmittedCOMPlugins) = 1

(***************************************************************************)
(* C15: a key whose opening or reading throws SecurityException gives no   *)
(* plugin and does not end the scan: every plugin of the list comes from a *)
(* key that can be read, and the list the scan fills is one that the scan  *)
(* fills when the denied key holds no value name.                          *)
(***************************************************************************)
C15_AccessDeniedSkipped ==
    [][ pc = "scan" =>
          /\ pc' \in {"sortIds", "sortGroups"}
          /\ \A i \in DOMAIN comPluginInfos' : registry[comPluginInfos'[i].Global].access = "ok"
          /\ comPluginInfos' \in ScanResults(WithoutDeniedKeys(registry), executor) ]_vars

\* A denied key held the id of a plugin that was not emitted, and a plugin
\* of the other key was emitted.
C15_Witness ==
    /\ pc = "done"
    /\ \E global \in BOOLEAN, n1, n2 \in GuidNames :
          /\ registry[global].access = "denied" /\ n1 \in registry[global].names
          /\ registry[~global].access = "ok" /\ n2 \in registry[~global].names
          /\ n1.id # n2.id
          /\ ~QueryThrows(n1.id) /\ ~QueryThrows(n2.id)
          /\ Count(n1.id, EmittedCOMPlugins) = 0
          /\ Count(n2.id, EmittedCOMPlugins) = 1

(***************************************************************************)
(* GetPluginsInDefaultOrder, GetPipelinePlugins.                           *)
(***************************************************************************)
\* The ids of the pipeline plugins.
PipelineIds == {SeparatorId + NumComIds + k : k \in 1..MaxPipelinePlugins}

\* The part of GetCOMPlugins that follows the scan.
SortAndCopy(list, scanned, keepsTies) ==
    LET byIds == Sort(scanned, IdComparisons(scanned), keepsTies)
        unique == IF Len(scanned) > 1 THEN RemoveDuplicates(byIds, Len(byIds)) ELSE scanned
        byGroups == Sort(unique, GroupComparisons(unique), keepsTies)
    IN  IF Len(byGroups) > 0
        THEN CopyPlugins([list |-> list, currentGroup |-> Int32MaxValue], byGroups)
        ELSE list

\* GetCOMPlugins as a whole; ids1 and ids2 are what GetValueNames returns
\* for the two keys.
GetCOMPlugins(list, reg, exec, ids1, ids2, keepsTies) ==
    SortAndCopy(list,
                ScanKey(ScanKey(<<>>, exec, RegKeyInfos[1], reg[RegKeyInfos[1]], ids1),
                        exec, RegKeyInfos[2], reg[RegKeyInfos[2]], ids2),
                keepsTies)

\* PipelinePluginInfo.ToPlugins: the plugin of each info, in the order of the infos.
ToPlugins(pluginInfos) == [i \in DOMAIN pluginInfos |-> pluginInfos[i].Id]

\* Variant: pluginInfos.Count is not tested.
GetPipelinePluginsNoCountTest(list, pluginInfos) ==
    (IF Len(list) > 0 THEN Append(list, SeparatorId) ELSE list) \o ToPlugins(pluginInfos)

\* GetPipelinePlugins(plugins, settings); pluginInfos is settings.PipelinePlugins.
GetPipelinePlugins(list, pluginInfos) ==
    IF Len(pluginInfos) > 0
    THEN (IF Len(list) > 0 THEN Append(list, SeparatorId) ELSE list) \o ToPlugins(pluginInfos)
    ELSE list

\* The overload without includePipelinePlugins passes true.
IncludedPipelinePlugins(include) == IF include.isNull THEN TRUE ELSE include.value

\* The calls of GetPluginsInDefaultOrder.  Both keys can be read, every value
\* name is a Guid in the first format and every query is answered.
InitDefaultOrder ==
    /\ pc = "default"
    /\ registry \in [BOOLEAN -> [access : {"ok"}, names : SUBSET {n \in GuidNames : n.text = "D"}]]
    /\ Cardinality(registry[TRUE].names) + Cardinality(registry[FALSE].names) <= MaxNames
    /\ executor \in [ComIds -> [fails : {{}}, useDefaultIcon : {TRUE},
                                GroupId : GroupValues, GroupPosition : {0}]]
    /\ \A id \in ComIds \ {n.id : n \in registry[TRUE].names \cup registry[FALSE].names} :
          executor[id].GroupId = 0
    /\ pluginList = <<>>
    /\ comPluginInfos = <<>>
    /\ sortKeepsTies = TRUE
    /\ includePipelinePlugins \in {Null, NotNull(TRUE), NotNull(FALSE)}
    /\ pipelinePlugins \in SeqsUpTo([Id : PipelineIds], MaxPipelinePlugins)
    /\ OrderIdle
    /\ UtilsIdle /\ ExecIdle /\ PathIdle

\* List<Plugin> plugins = new List<Plugin>(); GetDefaultPlugins(plugins, settings);
CallGetDefaultPlugins ==
    /\ pc = "default"
    /\ pluginList' = GetDefaultPlugins(<<>>)
    /\ pc' = "com"
    /\ UNCHANGED <<registry, executor, comPluginInfos, sortKeepsTies, orderVars, settingsVars, utilsVars, execVars, pathVars>>

\* GetCOMPlugins(plugins);
CallGetCOMPlugins ==
    /\ pc = "com"
    /\ \E ids1 \in Enumerations(registry[RegKeyInfos[1]].names),
          ids2 \in Enumerations(registry[RegKeyInfos[2]].names) :
          pluginList' = GetCOMPlugins(pluginList, registry, executor, ids1, ids2, sortKeepsTies)
    /\ pc' = "pipeline"
    /\ UNCHANGED <<registry, executor, comPluginInfos, sortKeepsTies, orderVars, settingsVars, utilsVars, execVars, pathVars>>

\* if (includePipelinePlugins) { GetPipelinePlugins(plugins, settings); } return plugins;
CallGetPipelinePlugins ==
    /\ pc = "pipeline"
    /\ pluginList' = IF IncludedPipelinePlugins(includePipelinePlugins)
                     THEN GetPipelinePlugins(pluginList, pipelinePlugins)
                     ELSE pluginList
    /\ pc' = "done"
    /\ UNCHANGED <<registry, executor, comPluginInfos, sortKeepsTies, orderVars, settingsVars, utilsVars, execVars, pathVars>>

NextDefaultOrder == CallGetDefaultPlugins \/ CallGetCOMPlugins \/ CallGetPipelinePlugins

SpecDefaultOrder == InitDefaultOrder /\ [][NextDefaultOrder]_vars

\* What GetPluginsInDefaultOrder is to add after the COM plugins.
PipelineSegment ==
    IF (includePipelinePlugins.isNull \/ includePipelinePlugins.value) /\ Len(pipelinePlugins) > 0
    THEN <<SeparatorId>> \o [i \in DOMAIN pipelinePlugins |-> pipelinePlugins[i].Id]
    ELSE <<>>

(***************************************************************************)
(* C16: the list returned is the built-in plugins, then the COM plugins    *)
(* and their Separators, then, if pipeline plugins are included (they are  *)
(* for the overload without the argument) and there is one at least, one   *)
(* Separator and the pipeline plugins in the order of the settings;        *)
(* otherwise nothing follows the COM plugins, no Separator either.         *)
(***************************************************************************)
C16_PipelineSegment ==
    pc = "done" =>
        LET builtIns == GetDefaultPlugins(<<>>)
            n == Len(pluginList) - Len(PipelineSegment)
        IN  /\ n >= Len(builtIns)
            /\ SubSeq(pluginList, 1, Len(builtIns)) = builtIns
            /\ \A i \in (Len(builtIns) + 1)..n : pluginList[i] \in ComIds \/ IsSeparatorPlugin(pluginList[i])
            /\ ~IsSeparatorPlugin(pluginList[n])
            /\ SubSeq(pluginList, n + 1, Len(pluginList)) = PipelineSegment

\* The overload without the argument returned COM plugins, then a Separator
\* and two pipeline plugins.
C16_Witness ==
    /\ pc = "done"
    /\ includePipelinePlugins = Null
    /\ Len(pipelinePlugins) = 2
    /\ EmittedCOMPlugins # <<>>
    /\ IsSeparatorPlugin(pluginList[Len(pluginList) - 2])
    /\ pluginList[Len(pluginList)] = pipelinePlugins[2].Id

\* The lists that scanning the keys in the other order can fill.
ScanResultsOtherOrder(reg, exec) ==
    {ScanKey(ScanKey(<<>>, exec, FALSE, reg[FALSE], ids2), exec, TRUE, reg[TRUE], ids1) :
        ids1 \in Enumerations(reg[TRUE].names), ids2 \in Enumerations(reg[FALSE].names)}

(***************************************************************************)
(* C17: the plugin ids and Separators that GetCOMPlugins adds to the list  *)
(* are the same for every order in which GetValueNames returns the value   *)
(* names of a key, and for either order of the two keys: the list that the *)
(* copy leaves is the list that every such scan leads to.                  *)
(***************************************************************************)
C17_ScanOrderIndependence ==
    [][ pc = "copy" =>
          \A scanned \in ScanResults(registry, executor) \cup ScanResultsOtherOrder(registry, executor) :
              pluginList' = SortAndCopy(pluginList, scanned, sortKeepsTies) ]_vars

\* Two plugins of the same group id and group position were emitted; one
\* key held the ids of both and the other key held an id too.
C17_Witness ==
    /\ pc = "done"
    /\ Len(EmittedCOMPlugins) = 2
    /\ executor[EmittedCOMPlugins[1]].GroupId = executor[EmittedCOMPlugins[2]].GroupId
    /\ executor[EmittedCOMPlugins[1]].GroupPosition = executor[EmittedCOMPlugins[2]].GroupPosition
    /\ \E global \in BOOLEAN :
          /\ {n.id : n \in registry[global].names} = ComIds \cap Range(EmittedCOMPlugins)
          /\ registry[~global].names # {}

(***************************************************************************)
(* PluginUtils::GetLocalComputerName: the name of the computer is queried  *)
(* once and cached in static members.  Threads call the function           *)
(* concurrently; each statement of the function is one step of a thread.   *)
(***************************************************************************)
NumThreads == 3

Threads == 1..NumThreads

NoThread == 0

\* The value of s_ComputerName before it is assigned, and the lowercase
\* name that a successful query assigns.
EmptyName == ""

LowercaseName == "name"

\* GetComputerNameW fails, or it succeeds and _wcslwr_s fails or succeeds.
QueryOutcomes == {"GetComputerNameW failed", "_wcslwr_s failed", "ok"}

\* The first test of s_HasComputerName is made without the lock, on a
\* plain bool that another thread may be writing: it reads the current
\* value or the value of before the write.
UnlockedRead(hasName) == {hasName, FALSE}

\* Variant of SecondTest without the test under the lock.
SecondTestMissing(hasName) == "query"

\* The test of s_HasComputerName under the lock: where the thread goes next.
SecondTest(hasName) == IF hasName THEN "unlock" ELSE "query"

InitComputerName ==
    /\ pc = "callers"
    /\ callers = [t \in Threads |-> "idle"]
    /\ s_Lock = NoThread
    /\ s_ComputerName = EmptyName
    /\ s_HasComputerName = FALSE
    /\ initRuns = 0
    /\ queryResult = "none"
    /\ OrderIdle
    /\ registry = <<>> /\ executor = <<>> /\ pluginList = <<>> /\ comPluginInfos = <<>>
    /\ sortKeepsTies = TRUE
    /\ SettingsIdle
    /\ ExecIdle /\ PathIdle

UtilsOnly == UNCHANGED <<pc, orderVars, comVars, settingsVars, execVars, pathVars>>

\* if (!s_HasComputerName)
FirstTest(t) ==
    /\ pc = "callers" /\ callers[t] = "idle"
    /\ \E read \in UnlockedRead(s_HasComputerName) :
          callers' = [callers EXCEPT ![t] = IF read THEN "return" ELSE "lock"]
    /\ UNCHANGED <<s_Lock, s_ComputerName, s_HasComputerName, initRuns, queryResult>>
    /\ UtilsOnly

\* std::lock_guard<std::mutex> lock(s_Lock);
Lock(t) ==
    /\ pc = "callers" /\ callers[t] = "lock"
    /\ s_Lock = NoThread
    /\ s_Lock' = t
    /\ callers' = [callers EXCEPT ![t] = "test"]
    /\ UNCHANGED <<s_ComputerName, s_HasComputerName, initRuns, queryResult>>
    /\ UtilsOnly

\* if (!s_HasComputerName), under the lock
TestUnderLock(t) ==
    /\ pc = "callers" /\ callers[t] = "test"
    /\ callers' = [callers EXCEPT ![t] = SecondTest(s_HasComputerName)]
    /\ UNCHANGED <<s_Lock, s_ComputerName, s_HasComputerName, initRuns, queryResult>>
    /\ UtilsOnly

\* ::GetComputerNameW(name, &length) and ::_wcslwr_s(name, length + 1)
QueryName(t) ==
    /\ pc = "callers" /\ callers[t] = "query"
    /\ \E outcome \in QueryOutcomes :
          /\ queryResult' = outcome
          /\ callers' = [callers EXCEPT ![t] = IF outcome = "ok" THEN "assign" ELSE "set"]
    /\ initRuns' = IF initRuns < 2 THEN initRuns + 1 ELSE 2
    /\ UNCHANGED <<s_Lock, s_ComputerName, s_HasComputerName>>
    /\ UtilsOnly

\* s_ComputerName = name;
AssignName(t) ==
    /\ pc = "callers" /\ callers[t] = "assign"
    /\ s_ComputerName' = LowercaseName
    /\ callers' = [callers EXCEPT ![t] = "set"]
    /\ UNCHANGED <<s_Lock, s_HasComputerName, initRuns, queryResult>>
    /\ UtilsOnly

\* s_HasComputerName = true;
SetHasName(t) ==
    /\ pc = "callers" /\ callers[t] = "set"
    /\ s_HasComputerName' = TRUE
    /\ callers' = [callers EXCEPT ![t] = "unlock"]
    /\ UNCHANGED <<s_Lock, s_ComputerName, initRuns, queryResult>>
    /\ UtilsOnly

\* The end of the scope of the lock_guard.
Unlock(t) ==
    /\ pc = "callers" /\ callers[t] = "unlock"
    /\ s_Lock' = IF s_Lock = t THEN NoThread ELSE s_Lock
    /\ callers' = [callers EXCEPT ![t] = "return"]
    /\ UNCHANGED <<s_ComputerName, s_HasComputerName, initRuns, queryResult>>
    /\ UtilsOnly

\* return s_ComputerName; the thread may call the function again.
ReturnName(t) ==
    /\ pc = "callers" /\ callers[t] = "return"
    /\ callers' = [callers EXCEPT ![t] = "idle"]
    /\ UNCHANGED <<s_Lock, s_ComputerName, s_HasComputerName, initRuns, queryResult>>
    /\ UtilsOnly

NextComputerName ==
    \E t \in Threads :
        \/ FirstTest(t)
        \/ Lock(t)
        \/ TestUnderLock(t)
        \/ QueryName(t)
        \/ AssignName(t)
        \/ SetHasName(t)
        \/ Unlock(t)
        \/ ReturnName(t)

SpecComputerName == InitComputerName /\ [][NextComputerName]_vars

\* The steps of the initialisation: the query and the assignments.
InitialisationSteps == {"query", "assign", "set"}

(***************************************************************************)
(* C18: under every interleaving of the callers the initialisation of the  *)
(* cached computer name runs at most once, a thread is in it only while it *)
(* holds s_Lock, and a failed query is cached as the empty name: the       *)
(* initialisation does not run again after it.                             *)
(***************************************************************************)
C18_InitialisedOnce ==
    /\ initRuns <= 1
    /\ \A t \in Threads : callers[t] \in InitialisationSteps => s_Lock = t
    /\ s_HasComputerName =>
          /\ initRuns = 1
          /\ \A t \in Threads : callers[t] \notin InitialisationSteps
          /\ s_ComputerName = IF queryResult = "ok" THEN LowercaseName ELSE EmptyName

\* The query failed and the failure is cached; another thread that read
\* s_HasComputerName as false before took the lock and finds it set.
C18_Witness ==
    /\ queryResult = "GetComputerNameW failed"
    /\ s_HasComputerName
    /\ s_ComputerName = EmptyName
    /\ initRuns = 1
    /\ \E t \in Threads : callers[t] = "test" /\ s_Lock = t

(***************************************************************************)
(* Execution of a pipeline plugin: GetPath(pipelinePlugin, inputPath) runs *)
(* the steps of the plugin on a path.  A path is a sequence of characters; *)
(* a step lowercases the path, replaces a character by another, or gives   *)
(* the path to an external command and takes its output.                   *)
(***************************************************************************)
MaxPathLen == 2

MaxSteps == 3

PathChars == {"A", "a", "\\"}

Paths == SeqsUpTo(PathChars, MaxPathLen)

\* What running an external command can do.
CommandResults == {"ok", "exit code", "not spawned"}

Steps ==
    {[type |-> "lowercase"]}
    \cup {[type |-> "replace", find |-> "\\", by |-> "/"], [type |-> "replace", find |-> "a", by |-> "A"]}
    \cup {[type |-> "command", result |-> r] : r \in CommandResults}

Lowercase(path) == [i \in DOMAIN path |-> IF path[i] = "A" THEN "a" ELSE path[i]]

\* Replaces every occurrence; a path without an occurrence is left as it is.
Replace(path, find, by) == [i \in DOMAIN path |-> IF path[i] = find THEN by ELSE path[i]]

\* The standard output of the command run on a path: the command used
\* writes the characters of its argument in reverse order.
CommandOutput(path) == [i \in DOMAIN path |-> path[Len(path) + 1 - i]]

\* A command that was not spawned or that exited with another code than 0.
IsHardFailure(step, path) == step.type = "command" /\ step.result # "ok"

\* The output of a step that did not fail.
StepOutput(step, path) ==
    CASE step.type = "lowercase" -> Lowercase(path)
      [] step.type = "replace" -> Replace(path, step.find, step.by)
      [] step.type = "command" -> CommandOutput(path)

\* Variant of NextStep that takes the steps from the last to the first.
NextStepBackwards(steps, index) == steps[Len(steps) - index]

\* The step to run after index steps ran: the steps run in declared order.
NextStep(steps, index) == steps[index + 1]

\* Variant of PathResult that returns the output of the steps that ran.
PathResultPartial(failed, path) == [failed |-> FALSE, path |-> path]

\* What GetPath returns: a failure without a path, or the path.
PathResult(failed, path) == [failed |-> failed, path |-> IF failed THEN <<>> ELSE path]

InitPipelineExec ==
    /\ pc = "exec"
    /\ pipelineSteps \in SeqsUpTo(Steps, MaxSteps)
    /\ inputPath \in Paths
    /\ stepIndex = 0
    /\ currentPath = inputPath
    /\ pipelineFailed = FALSE
    /\ pathResult = <<>>
    /\ OrderIdle
    /\ registry = <<>> /\ executor = <<>> /\ pluginList = <<>> /\ comPluginInfos = <<>>
    /\ sortKeepsTies = TRUE
    /\ SettingsIdle
    /\ UtilsIdle /\ PathIdle

\* One step of the pipeline runs on the output of the step before it.
RunStep ==
    /\ pc = "exec"
    /\ ~pipelineFailed
    /\ stepIndex < Len(pipelineSteps)
    /\ LET step == NextStep(pipelineSteps, stepIndex)
       IN  IF IsHardFailure(step, currentPath)
             THEN pipelineFailed' = TRUE /\ UNCHANGED currentPath
             ELSE currentPath' = StepOutput(step, currentPath) /\ UNCHANGED pipelineFailed
    /\ stepIndex' = stepIndex + 1
    /\ UNCHANGED <<pc, pipelineSteps, inputPath, pathResult>>
    /\ UNCHANGED <<orderVars, comVars, settingsVars, utilsVars, pathVars>>

\* The execution ends after the last step or after a step that failed.
ReturnPath ==
    /\ pc = "exec"
    /\ pipelineFailed \/ stepIndex = Len(pipelineSteps)
    /\ pathResult' = PathResult(pipelineFailed, currentPath)
    /\ pc' = "returned"
    /\ UNCHANGED <<pipelineSteps, inputPath, stepIndex, currentPath, pipelineFailed>>
    /\ UNCHANGED <<orderVars, comVars, settingsVars, utilsVars, pathVars>>

NextPipelineExec == RunStep \/ ReturnPath

SpecPipelineExec == InitPipelineExec /\ [][NextPipelineExec]_vars

\* The positions of the steps of the pipeline that are commands that fail.
FailingSteps == {i \in DOMAIN pipelineSteps : IsHardFailure(pipelineSteps[i], <<>>)}

(***************************************************************************)
(* C19: a pipeline of no step returns its input path, and a pipeline of    *)
(* two steps of which none fails returns the output of the second step run *)
(* on the output of the first step run on the input path.                  *)
(***************************************************************************)
C19_StepsComposeInOrder ==
    pc = "returned" /\ FailingSteps = {} =>
        /\ Len(pipelineSteps) = 0 => pathResult = [failed |-> FALSE, path |-> inputPath]
        /\ Len(pipelineSteps) = 2 =>
              pathResult = [failed |-> FALSE,
                            path |-> StepOutput(pipelineSteps[2], StepOutput(pipelineSteps[1], inputPath))]

\* Two steps ran of which the order matters: the path returned is not the
\* output of the first step run on the output of the second.
C19_Witness ==
    /\ pc = "returned"
    /\ Len(pipelineSteps) = 2
    /\ FailingSteps = {}
    /\ ~pathResult.failed
    /\ pathResult.path # StepOutput(pipelineSteps[1], StepOutput(pipelineSteps[2], inputPath))
    /\ pathResult.path # inputPath

\* The first step of the pipeline that fails, for a pipeline that has one.
FirstFailingStep == CHOOSE i \in FailingSteps : \A j \in FailingSteps : i <= j

(***************************************************************************)
(* C20: when a step of the pipeline hard-fails the execution ends with     *)
(* that step, and what is returned is a failure that carries no path; a    *)
(* replacement that matches nothing leaves the path as it is, is no        *)
(* failure, and the next step runs: a pipeline fails only by a command.    *)
(***************************************************************************)
C20_HardFailureDiscardsOutput ==
    /\ [](pc = "returned" /\ FailingSteps # {} =>
            /\ stepIndex = FirstFailingStep
            /\ pathResult = [failed |-> TRUE, path |-> <<>>])
    /\ [](pc = "returned" /\ FailingSteps = {} =>
            /\ stepIndex = Len(pipelineSteps)
            /\ ~pathResult.failed)
    /\ [][ /\ pc = "exec"
           /\ stepIndex' = stepIndex + 1
           /\ pipelineSteps[stepIndex'].type = "replace"
           /\ \A i \in DOMAIN currentPath : currentPath[i] # pipelineSteps[stepIndex'].find
           => currentPath' = currentPath /\ ~pipelineFailed' ]_vars

\* The second of three steps failed after the first step changed the path,
\* and the step before it was a replacement that matched nothing or not.
C20_Witness ==
    /\ pc = "returned"
    /\ Len(pipelineSteps) = 3
    /\ FirstFailingStep = 2
    /\ FailingSteps = {2}
    /\ currentPath # inputPath
    /\ currentPath # <<>>
    /\ pathResult.failed

(***************************************************************************)
(* PluginUtils::PluginIdsToString and PluginUtils::StringToPluginIds.  A   *)
(* string is a sequence of characters; the text of a plugin id is its      *)
(* digit between braces, as StringFromGUID2 writes the digits of a GUID    *)
(* between braces.                                                         *)
(***************************************************************************)
NumGuids == 2

MaxIds == 2

MaxTextLen == 4

GuidDigits == <<"1", "2", "3", "4">>

Guids == 1..NumGuids

\* ::StringFromGUID2(p_GUID, guidBuffer, 40): the buffer holds the text.
StringFromGUID2(id) == <<"{", GuidDigits[id], "}">>

\* The characters of the strings given to StringToPluginIds.
TextChars == {"{", "}", ","} \cup {GuidDigits[id] : id \in Guids}

\* The separators: two characters that the text of no id holds, and one
\* that the text of an id holds.
Separators == {",", ";", GuidDigits[1]}

\* ::CLSIDFromString: the ids of which the part is the text, none when the
\* call fails.
CLSIDFromString(stringPart) == {id \in Guids : StringFromGUID2(id) = stringPart}

\* The position of the first separator at or after position i of the
\* string, Len(string) + 1 when there is none.
RECURSIVE NextSeparator(_, _, _)
NextSeparator(string, separator, i) ==
    IF i > Len(string) \/ string[i] = separator THEN i
    ELSE NextSeparator(string, separator, i + 1)

\* StringUtils::Split, from position i: the parts of the string between
\* the separators.  The empty parts are returned or not.
RECURSIVE SplitFrom(_, _, _, _)
SplitFrom(string, separator, keepsEmpty, i) ==
    IF i > Len(string) + 1 THEN <<>>
    ELSE LET end == NextSeparator(string, separator, i)
             part == SubSeq(string, i, end - 1)
         IN  (IF part = <<>> /\ ~keepsEmpty THEN <<>> ELSE <<part>>)
                 \o SplitFrom(string, separator, keepsEmpty, end + 1)

Split(string, separator, keepsEmpty) ==
    IF string = <<>> THEN <<>> ELSE SplitFrom(string, separator, keepsEmpty, 1)

\* The loop of StringToPluginIds over the parts.
RECURSIVE ConvertParts(_)
ConvertParts(vStringParts) ==
    IF vStringParts = <<>> THEN <<>>
    ELSE LET ids == CLSIDFromString(Head(vStringParts))
         IN  (IF ids # {} THEN <<CHOOSE id \in ids : TRUE>> ELSE <<>>)
                 \o ConvertParts(Tail(vStringParts))

StringToPluginIds(string, separator, keepsEmpty) ==
    ConvertParts(Split(string, separator, keepsEmpty))

\* Variant of InsertOthers that writes no separator.
RECURSIVE InsertOthersNoSeparator(_, _)
InsertOthersNoSeparator(ids, separator) ==
    IF ids = <<>> THEN <<>>
    ELSE StringFromGUID2(Head(ids)) \o InsertOthersNoSeparator(Tail(ids), separator)

\* Insert the other elements with separators.
RECURSIVE InsertOthers(_, _)
InsertOthers(ids, separator) ==
    IF ids = <<>> THEN <<>>
    ELSE <<separator>> \o StringFromGUID2(Head(ids)) \o InsertOthers(Tail(ids), separator)

PluginIdsToString(ids, separator) ==
    IF ids # <<>> THEN StringFromGUID2(Head(ids)) \o InsertOthers(Tail(ids), separator)
    ELSE <<>>

\* Either a list of ids is converted to a string and back, or a string is
\* converted to a list.
InitPluginIds ==
    /\ p_Separator \in Separators
    /\ splitKeepsEmpty \in BOOLEAN
    /\ vPluginIds = <<>>
    /\ \/ /\ pc = "ids"
          /\ p_vPluginIds \in {NotNull(ids) : ids \in SeqsUpTo(Guids, MaxIds)}
          /\ p_rPluginIdsAsString = <<>>
       \/ /\ pc = "string"
          /\ p_vPluginIds = Null
          /\ p_rPluginIdsAsString \in SeqsUpTo(TextChars, MaxTextLen)
    /\ OrderIdle
    /\ registry = <<>> /\ executor = <<>> /\ pluginList = <<>> /\ comPluginInfos = <<>>
    /\ sortKeepsTies = TRUE
    /\ SettingsIdle /\ UtilsIdle /\ ExecIdle
    /\ ShownIdle /\ ShareIdle /\ MultiIdle /\ NameIdle

CallPluginIdsToString ==
    /\ pc = "ids"
    /\ p_rPluginIdsAsString' = PluginIdsToString(p_vPluginIds.value, p_Separator)
    /\ pc' = "string"
    /\ UNCHANGED <<p_vPluginIds, p_Separator, vPluginIds, splitKeepsEmpty>>
    /\ UNCHANGED <<orderVars, comVars, settingsVars, utilsVars, execVars>>
    /\ UNCHANGED <<shownVars, shareVars, multiVars, nameVars>>

\* What the call leaves in the string is not modelled: the string is kept.
CallStringToPluginIds ==
    /\ pc = "string"
    /\ vPluginIds' = StringToPluginIds(p_rPluginIdsAsString, p_Separator, splitKeepsEmpty)
    /\ pc' = "parsed"
    /\ UNCHANGED <<p_vPluginIds, p_Separator, p_rPluginIdsAsString, splitKeepsEmpty>>
    /\ UNCHANGED <<orderVars, comVars, settingsVars, utilsVars, execVars>>
    /\ UNCHANGED <<shownVars, shareVars, multiVars, nameVars>>

NextPluginIds == CallPluginIdsToString \/ CallStringToPluginIds

SpecPluginIds == InitPluginIds /\ [][NextPluginIds]_vars

\* The separator occurs in the text of no id.
SeparatorNotInIds == \A id \in Guids : p_Separator \notin Range(StringFromGUID2(id))

\* The positions of the string where the text of an id starts after the
\* start of the string or a separator and ends before a separator or the
\* end of the string.
IdStarts ==
    {i \in 1..Len(p_rPluginIdsAsString) :
        /\ i = 1 \/ p_rPluginIdsAsString[i - 1] = p_Separator
        /\ i + 2 <= Len(p_rPluginIdsAsString)
        /\ CLSIDFromString(SubSeq(p_rPluginIdsAsString, i, i + 2)) # {}
        /\ p_Separator \notin Range(SubSeq(p_rPluginIdsAsString, i, i + 2))
        /\ i + 2 = Len(p_rPluginIdsAsString) \/ p_rPluginIdsAsString[i + 3] = p_Separator}

(***************************************************************************)
(* C21: a list of plugin ids converted to a string with a separator that   *)
(* the text of no id holds, and converted back, is the list; and the list  *)
(* that any string is converted to holds, in the order of the string, the  *)
(* ids of the parts that are the text of an id, and nothing for the other  *)
(* parts.                                                                  *)
(***************************************************************************)
C21_IdListRoundTrip ==
    pc = "parsed" =>
        /\ ~p_vPluginIds.isNull /\ SeparatorNotInIds => vPluginIds = p_vPluginIds.value
        /\ Len(vPluginIds) = Cardinality(IdStarts)
        /\ \A i \in IdStarts :
              vPluginIds[Cardinality({j \in IdStarts : j <= i})]
                  \in CLSIDFromString(SubSeq(p_rPluginIdsAsString, i, i + 2))

\* A list of two different ids was converted and converted back.
C21_Witness ==
    /\ pc = "parsed"
    /\ ~p_vPluginIds.isNull
    /\ SeparatorNotInIds
    /\ Len(vPluginIds) = 2
    /\ vPluginIds[1] # vPluginIds[2]
    /\ p_rPluginIdsAsString[4] = p_Separator

(***************************************************************************)
(* PluginUtils::IsPluginShown.  A display order of the settings is Null    *)
(* when the settings hold no value for it.                                 *)
(***************************************************************************)
\* Plugins::DefaultPlugin().Id(): the id of one of the built-in plugins.
DefaultPluginId == -4

\* Settings::GetMainMenuPluginDisplayOrder and GetSubmenuPluginDisplayOrder:
\* whether the settings hold the display order, and the ids read.
GetPluginDisplayOrder(displayOrderValue) ==
    [found |-> ~displayOrderValue.isNull, ids |-> displayOrderValue.value]

\* PluginsRegistry::GetPluginsInDefaultOrder as a whole.
GetPluginsInDefaultOrder(reg, exec, ids1, ids2, keepsTies, include, pluginInfos) ==
    LET withCOM == GetCOMPlugins(GetDefaultPlugins(<<>>), reg, exec, ids1, ids2, keepsTies)
    IN  IF include THEN GetPipelinePlugins(withCOM, pluginInfos) ELSE withCOM

\* Variant of PluginsInMainMenu that takes an empty display order as none.
PluginsInMainMenuEmptyAsAbsent(displayOrderValue) ==
    LET got == GetPluginDisplayOrder(displayOrderValue)
    IN  IF ~got.found \/ got.ids = <<>> THEN <<DefaultPluginId>> ELSE got.ids

\* vPluginsInMainMenu: not specified, use the default plugin.
PluginsInMainMenu(displayOrderValue) ==
    LET got == GetPluginDisplayOrder(displayOrderValue)
    IN  IF ~got.found THEN Append(got.ids, DefaultPluginId) ELSE got.ids

\* vPluginsInSubmenu: not specified, use default plugins in default order.
PluginsInSubmenu(displayOrderValue, vspPlugins) ==
    LET got == GetPluginDisplayOrder(displayOrderValue)
    IN  IF ~got.found THEN got.ids \o vspPlugins ELSE got.ids

\* Scan lists to find our plugin.
IsPluginShown(vPluginsInMainMenu, vPluginsInSubmenu, id) ==
    ~(/\ \A i \in DOMAIN vPluginsInMainMenu : vPluginsInMainMenu[i] # id
      /\ \A i \in DOMAIN vPluginsInSubmenu : vPluginsInSubmenu[i] # id)

\* The ids in the display orders and the ids looked for: the default
\* plugin, another built-in plugin, the Separator, the COM plugins and a
\* pipeline plugin.
ShownIds == {DefaultPluginId, -1, SeparatorId} \cup ComIds \cup {SeparatorId + NumComIds + 1}

\* The keys can be read and the machine-wide key names COM plugins, which
\* answer every query; the settings may hold a pipeline plugin.
InitPluginShown ==
    /\ pc = "shown"
    /\ registry \in [BOOLEAN -> [access : {"ok"}, names : SUBSET {n \in GuidNames : n.text = "D"}]]
    /\ registry[FALSE].names = {}
    /\ executor = [id \in ComIds |-> [fails |-> {}, useDefaultIcon |-> TRUE, GroupId |-> 0, GroupPosition |-> 0]]
    /\ pluginList = <<>>
    /\ comPluginInfos = <<>>
    /\ sortKeepsTies = TRUE
    /\ includePipelinePlugins = NotNull(FALSE)
    /\ pipelinePlugins \in {<<>>, <<[Id |-> SeparatorId + NumComIds + 1]>>}
    /\ mainMenuDisplayOrder \in {Null} \cup {NotNull(ids) : ids \in SeqsUpTo(ShownIds, 1)}
    /\ submenuDisplayOrder \in {Null} \cup {NotNull(ids) : ids \in SeqsUpTo(ShownIds, 1)}
    /\ p_PluginId \in ShownIds
    /\ shown = FALSE
    /\ OrderIdle
    /\ UtilsIdle /\ ExecIdle
    /\ IdsIdle /\ ShareIdle /\ MultiIdle /\ NameIdle

\* pluginList is vspPlugins, filled when the submenu display order is not
\* specified.
CallIsPluginShown ==
    /\ pc = "shown"
    /\ \E ids1 \in Enumerations(registry[RegKeyInfos[1]].names),
          ids2 \in Enumerations(registry[RegKeyInfos[2]].names) :
          /\ pluginList' =
                IF ~GetPluginDisplayOrder(submenuDisplayOrder).found
                THEN GetPluginsInDefaultOrder(registry, executor, ids1, ids2, sortKeepsTies,
                                              includePipelinePlugins.value, pipelinePlugins)
                ELSE pluginList
          /\ shown' = IsPluginShown(PluginsInMainMenu(mainMenuDisplayOrder),
                                    PluginsInSubmenu(submenuDisplayOrder, pluginList'),
                                    p_PluginId)
    /\ pc' = "answered"
    /\ UNCHANGED <<registry, executor, comPluginInfos, sortKeepsTies, settingsVars>>
    /\ UNCHANGED <<mainMenuDisplayOrder, submenuDisplayOrder, p_PluginId>>
    /\ UNCHANGED <<orderVars, utilsVars, execVars, idVars, shareVars, multiVars, nameVars>>

NextPluginShown == CallIsPluginShown

SpecPluginShown == InitPluginShown /\ [][NextPluginShown]_vars

\* The ids of the main menu list used, and of the submenu list used: the
\* built-in plugins, the Separator and the COM plugins of the registry when
\* the settings hold no submenu display order.
EffectiveMainMenuIds ==
    IF mainMenuDisplayOrder.isNull THEN {DefaultPluginId} ELSE Range(mainMenuDisplayOrder.value)

EffectiveSubmenuIds ==
    IF submenuDisplayOrder.isNull
    THEN {-k : k \in 1..16} \cup {SeparatorId} \cup {n.id : n \in registry[TRUE].names}
    ELSE Range(submenuDisplayOrder.value)

AccurateContract ==
    /\ \A id \in Universe : Count(id, displayOrder) <= 1
    /\ ~knownPlugins.isNull => Range(displayOrder) \cap plugins \subseteq knownPlugins.value
    /\ \A id \in Universe \ {SeparatorId} : Count(id, pluginsInDefaultOrder.value) <= 1

(***************************************************************************)
(* C23: when displayOrder repeats no id, every id of displayOrder that is  *)
(* a key of plugins is in knownPlugins, and pluginsInDefaultOrder repeats  *)
(* no plugin id, no plugin id is more than once in the returned list.      *)
(***************************************************************************)
C23_AccurateContractNoDuplicates ==
    pc = "done" /\ AccurateContract =>
        \A i, j \in DOMAIN orderedPlugins :
            i # j /\ orderedPlugins[i] = orderedPlugins[j] => IsSeparatorPlugin(orderedPlugins[i])

\* A known plugin of displayOrder and an unknown plugin of
\* pluginsInDefaultOrder, which holds the known plugin too, were returned.
C23_Witness ==
    /\ DefaultWalkDone
    /\ AccurateContract
    /\ Displayed # <<>>
    /\ ~IsSeparatorPlugin(Displayed[1])
    /\ Displayed[1] \in Range(pluginsInDefaultOrder.value)
    /\ \E i \in DOMAIN UnknownRun : ~IsSeparatorPlugin(UnknownRun[i])

\* What the walks append after the entries of the display order.
AppendedPart == SubSeq(orderedPlugins, Len(Displayed) + 1, Len(orderedPlugins))

\* Two adjacent entries of the sequence are Separators.
AdjacentSeparators(s) ==
    \E i \in 1..(Len(s) - 1) : IsSeparatorPlugin(s[i]) /\ IsSeparatorPlugin(s[i + 1])

\* pluginsInDefaultOrder holds an unknown plugin and two Separators next.
RunOfSeparatorsAfterUnknown ==
    \E q \in 1..(Len(pluginsInDefaultOrder.value) - 2) :
        /\ pluginsInDefaultOrder.value[q] \in UnknownIds \ {SeparatorId}
        /\ IsSeparatorPlugin(pluginsInDefaultOrder.value[q + 1])
        /\ IsSeparatorPlugin(pluginsInDefaultOrder.value[q + 2])

(***************************************************************************)
(* C24 as claimed: the marker of the unknown walk lets a run of Separators *)
(* of pluginsInDefaultOrder through, so that a call whose                  *)
(* pluginsInDefaultOrder holds two adjacent Separators after an unknown    *)
(* plugin returns two adjacent Separators in the appended part.            *)
(***************************************************************************)
C24_RunOfSeparatorsLetThrough ==
    DefaultWalkDone /\ RunOfSeparatorsAfterUnknown => AdjacentSeparators(AppendedPart)

(***************************************************************************)
(* C24 as amended: the marker is cleared when a Separator is added, so the *)
(* part appended by the unknown walk over pluginsInDefaultOrder never      *)
(* holds two adjacent Separators, whatever runs of Separators              *)
(* pluginsInDefaultOrder holds: of a run that follows an unknown plugin    *)
(* the first Separator is added and the others are not.                    *)
(***************************************************************************)
C24_NoAdjacentSeparatorsAppended ==
    DefaultWalkDone =>
        /\ ~AdjacentSeparators(AppendedPart)
        /\ Count(SeparatorId, UnknownRun) <=
              Cardinality({i \in DOMAIN UnknownRun : ~IsSeparatorPlugin(UnknownRun[i])})

\* Nothing came from displayOrder; pluginsInDefaultOrder is an unknown
\* plugin and two Separators, and the plugin and one Separator are returned.
C24_Witness ==
    /\ DefaultWalkDone
    /\ RunOfSeparatorsAfterUnknown
    /\ displayOrder = <<>>
    /\ Len(orderedPlugins) = 2
    /\ ~IsSeparatorPlugin(orderedPlugins[1])
    /\ IsSeparatorPlugin(orderedPlugins[2])

\* The plugins of a sequence, without its Separators.
WithoutSeparators(s) == SelectSeq(s, LAMBDA id : ~IsSeparatorPlugin(id))

(***************************************************************************)
(* C26: every entry of the returned list that is no Separator is a key of  *)
(* plugins; the list starts with the entries of the display-order walk,    *)
(* and the unknown plugins appended from pluginsInDefaultOrder follow them *)
(* in the order they have in pluginsInDefaultOrder.                        *)
(***************************************************************************)
C26_OutputSoundness ==
    pc = "done" =>
        /\ \A i \in DOMAIN orderedPlugins :
              ~IsSeparatorPlugin(orderedPlugins[i]) => orderedPlugins[i] \in plugins
        /\ SubSeq(orderedPlugins, 1, Len(Displayed)) = Displayed
        /\ DefaultWalkDone =>
              WithoutSeparators(AppendedPart) =
                  SelectSeq(pluginsInDefaultOrder.value,
                            LAMBDA id : ~IsSeparatorPlugin(id) /\ id \in UnknownIds)

\* displayOrder holds a stale id and pluginsInDefaultOrder a plugin that is
\* no key of plugins; an unknown plugin was appended.
C26_Witness ==
    /\ DefaultWalkDone
    /\ Range(displayOrder) \ (plugins \cup {SeparatorId}) # {}
    /\ Range(pluginsInDefaultOrder.value) \ (plugins \cup {SeparatorId}) # {}
    /\ Len(WithoutSeparators(AppendedPart)) >= 1

(***************************************************************************)
(* C25 as claimed: when the list holds plugins on entry and the copy adds  *)
(* COM plugins, what it adds starts with exactly one Separator followed by *)
(* the first COM plugin, whatever the group id of that plugin.             *)
(***************************************************************************)
C25_SeparatorBeforeFirstCOMPlugin ==
    [][ pc = "copy" /\ pluginList # <<>> /\ Appended # <<>> =>
          /\ IsSeparatorPlugin(Appended[1])
          /\ Len(Appended) >= 2
          /\ Appended[2] \in ComIds ]_vars

\* The built-in plugins of a list, in its order.
BuiltInPlugins(list) == SelectSeq(list, LAMBDA id : id < 0)

\* The groups of the built-in plugins: the sets of plugins between the
\* Separators of the built-in sequence.
BuiltInGroups(builtIns) ==
    {{builtIns[i] : i \in {i \in DOMAIN builtIns :
                              /\ ~IsSeparatorPlugin(builtIns[i])
                              /\ Count(SeparatorId, SubSeq(builtIns, 1, i)) = g}} :
        g \in 0..Count(SeparatorId, builtIns)}

\* The returned list does not start with a Separator, does not end with
\* one, holds no two adjacent Separators and starts with the built-in
\* sequence.
WellFormedSeparators ==
    /\ pluginList # <<>>
    /\ ~IsSeparatorPlugin(pluginList[1])
    /\ ~IsSeparatorPlugin(pluginList[Len(pluginList)])
    /\ ~AdjacentSeparators(pluginList)
    /\ SubSeq(pluginList, 1, Len(GetDefaultPlugins(<<>>))) = GetDefaultPlugins(<<>>)

\* The list starts with the built-in plugins, which are of the number
\* given, in 7 groups, none empty, parted by 6 Separators.
BuiltInSequenceOf(count) ==
    LET builtIns == SubSeq(pluginList, 1, count + 6)
    IN  /\ Len(pluginList) >= count + 6
        /\ BuiltInPlugins(builtIns) = BuiltInPlugins(pluginList)
        /\ Len(BuiltInPlugins(builtIns)) = count
        /\ Cardinality(Range(BuiltInPlugins(builtIns))) = count
        /\ Count(SeparatorId, builtIns) = 6
        /\ Cardinality(BuiltInGroups(builtIns)) = 7
        /\ {} \notin BuiltInGroups(builtIns)

(***************************************************************************)
(* C27 as claimed: the list that GetPluginsInDefaultOrder returns does not *)
(* start or end with a Separator and holds no two adjacent Separators, and *)
(* it begins with the built-in sequence of 15 plugins in 7 groups parted   *)
(* by 6 Separators.                                                        *)
(***************************************************************************)
C27_FifteenBuiltInPlugins ==
    pc = "done" => WellFormedSeparators /\ BuiltInSequenceOf(15)

(***************************************************************************)
(* C27 as amended: the same, with a built-in sequence of 16 plugins in 7   *)
(* groups parted by 6 Separators.                                          *)
(***************************************************************************)
C27_SeparatorWellFormedness ==
    pc = "done" => WellFormedSeparators /\ BuiltInSequenceOf(16)

\* COM plugins of two groups and pipeline plugins follow the built-in
\* plugins.
C27_Witness ==
    /\ pc = "done"
    /\ Len(EmittedCOMPlugins) = 2
    /\ executor[EmittedCOMPlugins[1]].GroupId # executor[EmittedCOMPlugins[2]].GroupId
    /\ PipelineSegment # <<>>
    /\ Count(SeparatorId, pluginList) = 9

(***************************************************************************)
(* PluginUtils::GetHiddenDriveShareFilePath.  A path is a sequence of      *)
(* characters; the name of the computer is one element of the sequence.    *)
(***************************************************************************)
MaxFilePathLen == 3

\* [A-Za-z]
DriveLetters == {"C"}

\* The characters that . of the regular expression does not match.
LineTerminators == {"\n"}

FilePathChars == DriveLetters \cup {":", "\\", "/"} \cup LineTerminators

\* HIDDEN_DRIVE_SHARES_REGEX, ^([A-Za-z])\:((\\|/).*)$ : whether the whole
\* path matches.
MatchesHiddenDriveShareRegex(filePath) ==
    /\ Len(filePath) >= 3
    /\ filePath[1] \in DriveLetters
    /\ filePath[2] = ":"
    /\ filePath[3] \in {"\\", "/"}
    /\ \A i \in 4..Len(filePath) : filePath[i] \notin LineTerminators

\* std::regex_replace with HIDDEN_DRIVE_SHARES_FORMAT, $1$$$2: the match is
\* replaced by the drive letter, a $ and the rest; a path without a match
\* is copied as it is.
RegexReplace(filePath) ==
    IF MatchesHiddenDriveShareRegex(filePath)
    THEN <<filePath[1], "$">> \o SubSeq(filePath, 3, Len(filePath))
    ELSE filePath

\* ss << L"\\\\" << GetLocalComputerName() << L"\\" << replaced
HiddenDriveShareFilePath(replaced) == <<"\\", "\\", LowercaseName, "\\">> \o replaced

InitHiddenDriveShare ==
    /\ pc = "share"
    /\ filePathGiven \in SeqsUpTo(FilePathChars, MaxFilePathLen)
    /\ p_rFilePath = filePathGiven
    /\ converted = FALSE
    /\ OrderIdle
    /\ registry = <<>> /\ executor = <<>> /\ pluginList = <<>> /\ comPluginInfos = <<>>
    /\ sortKeepsTies = TRUE
    /\ SettingsIdle /\ UtilsIdle /\ ExecIdle
    /\ IdsIdle /\ ShownIdle /\ MultiIdle /\ NameIdle

CallGetHiddenDriveShareFilePath ==
    /\ pc = "share"
    /\ LET replaced == RegexReplace(p_rFilePath)
       IN  IF replaced # <<>>
           THEN p_rFilePath' = HiddenDriveShareFilePath(replaced) /\ converted' = TRUE
           ELSE UNCHANGED <<p_rFilePath, converted>>
    /\ pc' = "returned"
    /\ UNCHANGED filePathGiven
    /\ UNCHANGED <<orderVars, comVars, settingsVars, utilsVars, execVars>>
    /\ UNCHANGED <<idVars, shownVars, multiVars, nameVars>>

NextHiddenDriveShare == CallGetHiddenDriveShareFilePath

SpecHiddenDriveShare == InitHiddenDriveShare /\ [][NextHiddenDriveShare]_vars

\* The path is on a local drive: a letter, a colon and a \ or a /.
OnLocalDrive(filePath) ==
    /\ Len(filePath) >= 3
    /\ filePath[1] \in DriveLetters
    /\ filePath[2] = ":"
    /\ filePath[3] \in {"\\", "/"}

(***************************************************************************)
(* C28 as claimed: GetHiddenDriveShareFilePath returns true for a path on  *)
(* a local drive, which it rewrites to \\computer\drive$rest, and returns  *)
(* false for every other path, which it leaves as it is.                   *)
(***************************************************************************)
C28_OnlyLocalDrivePathsConverted ==
    pc = "returned" =>
        IF OnLocalDrive(filePathGiven)
        THEN /\ converted
             /\ p_rFilePath = <<"\\", "\\", LowercaseName, "\\", filePathGiven[1], "$">>
                                  \o SubSeq(filePathGiven, 3, Len(filePathGiven))
        ELSE ~converted /\ p_rFilePath = filePathGiven

(***************************************************************************)
(* PluginUtils::GetMultiStringLineBeginningWith.  A string is a sequence   *)
(* of characters, of which Nul is the character L'\0'; the offsets are     *)
(* those of the code, which count from 0.  Each pass of the loop is two    *)
(* steps: the search of the end of the line, and the test of the line.     *)
(***************************************************************************)
MaxValueLen == 4

Nul == "NUL"

ValueChars == {"P", "x", Nul}

\* The prefixes: they hold no Nul.
Prefixes == {<<"P">>, <<"P", "x">>}

\* std::wstring::npos, the largest value of size_type: npos + 1 is 0.
NPos == -1

\* endOffset + 1 in size_type.
SizePlusOne(n) == IF n = NPos THEN 0 ELSE n + 1

\* p_MultiStringValue.find_first_of(L'\0', pos)
FindFirstOf(value, char, pos) ==
    LET found == {i \in 0..(Len(value) - 1) : i >= pos /\ value[i + 1] = char}
    IN  IF found = {} THEN NPos ELSE CHOOSE i \in found : \A j \in found : i <= j

\* p_MultiStringValue.find(p_Prefix, pos)
Find(value, prefix, pos) ==
    LET found == {i \in 0..Len(value) :
                     /\ i >= pos
                     /\ i + Len(prefix) <= Len(value)
                     /\ SubSeq(value, i + 1, i + Len(prefix)) = prefix}
    IN  IF found = {} THEN NPos ELSE CHOOSE i \in found : \A j \in found : i <= j

\* p_MultiStringValue.substr(pos, count) for pos <= size(); the count
\* endOffset - offset - prefixSize is larger than every size when endOffset
\* is npos.
Substr(value, pos, end, count) ==
    IF end = NPos \/ pos + count > Len(value)
    THEN SubSeq(value, pos + 1, Len(value))
    ELSE SubSeq(value, pos + 1, pos + count)

InitMultiString ==
    /\ pc = "find"
    /\ p_MultiStringValue \in SeqsUpTo(ValueChars, MaxValueLen)
    /\ p_Prefix \in Prefixes
    /\ offset = 0
    /\ endOffset = 0
    /\ line = <<>>
    /\ OrderIdle
    /\ registry = <<>> /\ executor = <<>> /\ pluginList = <<>> /\ comPluginInfos = <<>>
    /\ sortKeepsTies = TRUE
    /\ SettingsIdle /\ UtilsIdle /\ ExecIdle
    /\ IdsIdle /\ ShownIdle /\ ShareIdle /\ NameIdle

MultiStringOnly ==
    /\ UNCHANGED <<orderVars, comVars, settingsVars, utilsVars, execVars>>
    /\ UNCHANGED <<idVars, shownVars, shareVars, nameVars>>

\* endOffset = find_first_of(L'\0', offset); if (endOffset == offset) break;
FindEndOfLine ==
    /\ pc = "find"
    /\ endOffset' = FindFirstOf(p_MultiStringValue, Nul, offset)
    /\ pc' = IF endOffset' = offset THEN "return" ELSE "test"
    /\ UNCHANGED <<p_MultiStringValue, p_Prefix, offset, line>>
    /\ MultiStringOnly

\* if (find(p_Prefix, offset) == offset) { line = ...; break; }
\* else { offset = endOffset + 1; } } while (offset < size());
TestLine ==
    /\ pc = "test"
    /\ IF Find(p_MultiStringValue, p_Prefix, offset) = offset
       THEN /\ line' = Substr(p_MultiStringValue, offset + Len(p_Prefix), endOffset,
                              (endOffset - offset) - Len(p_Prefix))
            /\ pc' = "return"
            /\ UNCHANGED offset
       ELSE /\ offset' = SizePlusOne(endOffset)
            /\ pc' = IF offset' < Len(p_MultiStringValue) THEN "find" ELSE "return"
            /\ UNCHANGED line
    /\ UNCHANGED <<p_MultiStringValue, p_Prefix, endOffset>>
    /\ MultiStringOnly

\* return line;
ReturnLine ==
    /\ pc = "return"
    /\ pc' = "returned"
    /\ UNCHANGED multiVars
    /\ MultiStringOnly

NextMultiString == FindEndOfLine \/ TestLine \/ ReturnLine

\* The thread that runs the function goes on as long as it has a step.
SpecMultiString == InitMultiString /\ [][NextMultiString]_vars /\ WF_vars(NextMultiString)

\* The offsets at which the lines of the value start: the lines end with a
\* Nul or with the value, and the value ends before the first empty line.
LineStarts ==
    {i \in 0..(Len(p_MultiStringValue) - 1) :
        /\ i = 0 \/ p_MultiStringValue[i] = Nul
        /\ \A j \in 0..i : (j = 0 \/ p_MultiStringValue[j] = Nul) => p_MultiStringValue[j + 1] # Nul}

MatchingLineStarts ==
    {i \in LineStarts :
        /\ i + Len(p_Prefix) <= Len(p_MultiStringValue)
        /\ SubSeq(p_MultiStringValue, i + 1, i + Len(p_Prefix)) = p_Prefix}

\* The first line that begins with the prefix, without the prefix; the
\* empty string when there is none.
FirstMatchingLine ==
    IF MatchingLineStarts = {} THEN <<>>
    ELSE LET start == CHOOSE i \in MatchingLineStarts : \A j \in MatchingLineStarts : i <= j
             rest == SubSeq(p_MultiStringValue, start + Len(p_Prefix) + 1, Len(p_MultiStringValue))
             nul == FindFirstOf(rest, Nul, 0)
         IN  IF nul = NPos THEN rest ELSE SubSeq(rest, 1, nul)

(***************************************************************************)
(* C29 as claimed: for every value and every prefix the function returns,  *)
(* and what it returns is the first line that begins with the prefix,      *)
(* without the prefix, or the empty string when no line begins with it.    *)
(***************************************************************************)
C29_TerminatesWithFirstLine ==
    /\ <>(pc = "returned")
    /\ [](pc = "returned" => line = FirstMatchingLine)

(***************************************************************************)
(* LongPathPlugin::GetPath, ShortUNCPathPlugin::GetPath and                *)
(* ShortUNCFolderPlugin::GetPath.  A path is modelled by where its         *)
(* characters come from and by its length.                                 *)
(***************************************************************************)
MAX_PATH == 260

\* sizeof(longPath) / sizeof(wchar_t)
BufferSize == MAX_PATH + 1

PathPlugins == {"LongPathPlugin", "ShortUNCPathPlugin", "ShortUNCFolderPlugin"}

EmptyPath == [from |-> "nothing", length |-> 0]

\* The paths given to GetPath.
FilePaths == {EmptyPath} \cup {[from |-> "p_File", length |-> n] : n \in {1, MAX_PATH}}

\* What LongUNCPathPlugin::GetPath and LongUNCFolderPlugin::GetPath return
\* for a path: the empty path for the empty path, and else the path or a
\* path of their own.
InheritedPaths(file) ==
    IF file = EmptyPath THEN {EmptyPath}
    ELSE {file, [from |-> "inherited", length |-> 1], [from |-> "inherited", length |-> MAX_PATH]}

\* What GetLongPathNameW and GetShortPathNameW return with a buffer of
\* BufferSize characters: 0 when they fail, the length of the name copied,
\* without its terminator, when the buffer holds it, and the size that the
\* name and its terminator require when the buffer does not.
QueryResults == {0, 1, MAX_PATH, BufferSize + 1, 2 * BufferSize}

\* path.assign(longPath, copied): the characters read from the buffer.
CharsAssigned(count) == count

InitGetPath ==
    /\ pc = "path"
    /\ pathPlugin \in PathPlugins
    /\ p_File \in FilePaths
    /\ pathObtained = EmptyPath
    /\ copied = 0
    /\ charsRead = 0
    /\ OrderIdle
    /\ registry = <<>> /\ executor = <<>> /\ pluginList = <<>> /\ comPluginInfos = <<>>
    /\ sortKeepsTies = TRUE
    /\ SettingsIdle /\ UtilsIdle /\ ExecIdle
    /\ IdsIdle /\ ShownIdle /\ ShareIdle /\ MultiIdle

GetPathOnly ==
    /\ UNCHANGED <<orderVars, comVars, settingsVars, utilsVars, execVars>>
    /\ UNCHANGED <<idVars, shownVars, shareVars, multiVars>>

\* std::wstring path(p_File); or, in the two other plugins,
\* std::wstring path = LongUNC...Plugin::GetPath(p_File); if (!path.empty()) ...
GetLongPath ==
    /\ pc = "path"
    /\ pathObtained' \in (IF pathPlugin = "LongPathPlugin" THEN {p_File} ELSE InheritedPaths(p_File))
    /\ pc' = IF pathObtained' = EmptyPath THEN "return" ELSE "query"
    /\ UNCHANGED <<pathPlugin, p_File, copied, charsRead>>
    /\ GetPathOnly

\* DWORD copied = ::GetLongPathNameW(...) or ::GetShortPathNameW(...);
QueryPathName ==
    /\ pc = "query"
    /\ copied' \in QueryResults
    /\ pc' = "assign"
    /\ UNCHANGED <<pathPlugin, p_File, pathObtained, charsRead>>
    /\ GetPathOnly

\* if (copied != 0) { path.assign(longPath, copied); }  Reading more than
\* the buffer holds is undefined: the path gets what lies past the buffer,
\* or the read faults.
AssignPathName ==
    /\ pc = "assign"
    /\ IF copied # 0
       THEN /\ charsRead' = CharsAssigned(copied)
            /\ \/ /\ pathObtained' = [from |-> IF charsRead' > BufferSize THEN "past the buffer"
                                                ELSE "buffer",
                                      length |-> charsRead']
                  /\ pc' = IF pathPlugin = "LongPathPlugin" THEN "separator" ELSE "return"
               \/ /\ charsRead' > BufferSize
                  /\ pc' = "fault"
                  /\ UNCHANGED pathObtained
       ELSE /\ UNCHANGED <<pathObtained, charsRead>>
            /\ pc' = IF pathPlugin = "LongPathPlugin" THEN "separator" ELSE "return"
    /\ UNCHANGED <<pathPlugin, p_File, copied>>
    /\ GetPathOnly

\* if (... GetAppendSeparatorForDirectories() && PluginUtils::IsDirectory(path)) path += L"\\";
AppendSeparator ==
    /\ pc = "separator"
    /\ \E append \in BOOLEAN :
          pathObtained' = IF append
                          THEN [from |-> pathObtained.from, length |-> pathObtained.length + 1]
                          ELSE pathObtained
    /\ pc' = "return"
    /\ UNCHANGED <<pathPlugin, p_File, copied, charsRead>>
    /\ GetPathOnly

\* return path;
ReturnPathObtained ==
    /\ pc = "return"
    /\ pc' = "returned"
    /\ UNCHANGED nameVars
    /\ GetPathOnly

NextGetPath == GetLongPath \/ QueryPathName \/ AssignPathName \/ AppendSeparator \/ ReturnPathObtained

SpecGetPath == InitGetPath /\ [][NextGetPath]_vars

(***************************************************************************)
(* C30 as claimed: whatever the query of the OS returns, no more than      *)
(* MAX_PATH + 1 characters are read from the buffer; when the query        *)
(* returns 0 the conversion leaves the path as it is; and the empty path   *)
(* gives the empty path.                                                   *)
(***************************************************************************)
C30_NoReadPastBuffer ==
    /\ [](charsRead <= MAX_PATH + 1)
    /\ [][pc = "assign" /\ copied = 0 => pathObtained' = pathObtained]_vars
    /\ [](pc = "returned" /\ p_File = EmptyPath => pathObtained = EmptyPath)

====
